---- MODULE Spec2Model ----
(***************************************************************************)
(* Model of the trade-listing DVM dispatcher of rhi:                       *)
(*   src/src/features/trade_listing/state.rs       the order-state store   *)
(*   src/src/features/trade_listing/handlers/dvm.rs  handle_event and the  *)
(*                                                 per-message handlers    *)
(*   src/src/features/trade_listing/subscriber.rs  the handler tasks       *)
(*                                                                         *)
(* Strings that are parsed (listing addresses, public keys in hex) are     *)
(* sequences of tokens; Option<T> is a sequence of length 0 or 1.          *)
(***************************************************************************)
EXTENDS Integers, Sequences, FiniteSets, TLC

\* ------------------------------------------------------------------ bounds

\* Number of handler tasks that can be in flight at the same time.
MaxTasks == 2
\* Number of distinct event ids the relays deliver.
MaxIds == 3
\* Number of distinct event ids in the runs that follow one order to its end.
MaxLifeIds == 5
\* Number of distinct event ids in the runs that keep each task's event.
MaxConcIds == 2
\* How many times the supervisor runs the subscriber.
MaxRuns == 2

Tasks == 1..MaxTasks
EventIds == 1..MaxIds
LifeIds == 1..MaxLifeIds
ConcIds == 1..MaxConcIds
AllIds == EventIds \cup LifeIds \cup ConcIds
\* Order ids are strings: one token each.
OrderIds == {<<"o1">>}

\* ------------------------------------------------------------------ values

None == << >>
Some(v) == <<v>>

\* Public keys: the buyer, the seller, a third party and the daemon itself.
Buyer == "B"
Seller == "S"
Mallory == "M"
Rhi == "R"
PublicKeys == {Buyer, Seller, Mallory, Rhi}

\* PublicKey::to_string(): the hex form, one token of the string.
pubkey_to_string(pk) == <<pk>>

TradeOrderStatus ==
    {"Draft", "Validated", "Requested", "Questioned", "Revised", "Accepted",
     "Declined", "Cancelled", "Fulfilled", "Completed"}

Terminal == {"Declined", "Cancelled", "Completed"}

MessageTypeSeq ==
    <<"ListingValidateRequest", "ListingValidateResult", "OrderRequest",
      "OrderResponse", "OrderRevision", "OrderRevisionAccept",
      "OrderRevisionDecline", "Question", "Answer", "DiscountRequest",
      "DiscountOffer", "DiscountAccept", "DiscountDecline", "Cancel",
      "FulfillmentUpdate", "Receipt">>

TradeListingMessageType == {MessageTypeSeq[i] : i \in 1..Len(MessageTypeSeq)}

\* TradeListingMessageType::kind(): one distinct custom kind per message type.
message_type_kind(mt) ==
    CASE mt = "ListingValidateRequest" -> 1
      [] mt = "ListingValidateResult" -> 2
      [] mt = "OrderRequest" -> 3
      [] mt = "OrderResponse" -> 4
      [] mt = "OrderRevision" -> 5
      [] mt = "OrderRevisionAccept" -> 6
      [] mt = "OrderRevisionDecline" -> 7
      [] mt = "Question" -> 8
      [] mt = "Answer" -> 9
      [] mt = "DiscountRequest" -> 10
      [] mt = "DiscountOffer" -> 11
      [] mt = "DiscountAccept" -> 12
      [] mt = "DiscountDecline" -> 13
      [] mt = "Cancel" -> 14
      [] mt = "FulfillmentUpdate" -> 15
      [] mt = "Receipt" -> 16

\* TradeListingMessageType::requires_order_id()
requires_order_id(mt) == mt \notin {"ListingValidateRequest", "ListingValidateResult"}

is_trade_listing_dvm_kind(kind) == kind \in 1..Len(MessageTypeSeq)

\* ------------------------------------------------------- listing addresses

DecimalTokens == {"30402", "30023", "70000"}

DecimalValue(tok) ==
    CASE tok = "30402" -> 30402
      [] tok = "30023" -> 30023
      [] tok = "70000" -> 70000

ParseError == [ok |-> FALSE, kind |-> 0, seller_pubkey |-> << >>, listing_id |-> << >>]

\* u16::from_str on the kind segment.
IsU16(seg) == Len(seg) = 1 /\ seg[1] \in DecimalTokens /\ DecimalValue(seg[1]) < 65536

\* str::find(':') from position i on; 0 when there is none.
RECURSIVE FindColon(_, _)
FindColon(s, i) ==
    IF i > Len(s) THEN 0
    ELSE IF s[i] = ":" THEN i
    ELSE FindColon(s, i + 1)

\* TradeListingAddress::parse: split on the first two ':'.
TradeListingAddress_parse(s) ==
    LET p1 == FindColon(s, 1)
        p2 == FindColon(s, p1 + 1)
    IN
    IF p1 = 0 \/ p2 = 0 THEN ParseError
    ELSE LET kindseg == SubSeq(s, 1, p1 - 1)
         IN IF ~IsU16(kindseg) THEN ParseError
            ELSE [ok |-> TRUE,
                  kind |-> DecimalValue(kindseg[1]),
                  seller_pubkey |-> SubSeq(s, p1 + 1, p2 - 1),
                  listing_id |-> SubSeq(s, p2 + 1, Len(s))]

\* TradeListingAddress::as_str: the three fields joined by ':'.
DecimalToken(n) ==
    CASE n = 30402 -> "30402"
      [] n = 30023 -> "30023"
      [] n = 70000 -> "70000"

TradeListingAddress_as_str(a) ==
    <<DecimalToken(a.kind)>> \o <<":">> \o a.seller_pubkey \o <<":">> \o a.listing_id

ListingKind == 30402

\* ------------------------------------------------------------ transitions

\* ensure_transition with Cancelled no longer final: a cancelled order can be
\* fulfilled.
ensure_transition_reopen(from, to) ==
    IF from = to THEN TRUE
    ELSE CASE from = "Draft" -> to \in {"Requested"}
           [] from = "Validated" -> to \in {"Requested"}
           [] from = "Requested" ->
                to \in {"Accepted", "Declined", "Questioned", "Revised", "Cancelled",
                        "Requested"}
           [] from = "Questioned" -> to \in {"Requested", "Revised", "Cancelled"}
           [] from = "Revised" -> to \in {"Accepted", "Declined", "Cancelled", "Requested"}
           [] from = "Accepted" -> to \in {"Fulfilled", "Cancelled"}
           [] from = "Declined" -> FALSE
           [] from = "Cancelled" -> to \in {"Fulfilled"}
           [] from = "Fulfilled" -> to \in {"Completed", "Fulfilled", "Cancelled"}
           [] from = "Completed" -> FALSE

\* ensure_transition that looks the pair up in the table, also when the two
\* statuses are the same.
ensure_transition_table_only(from, to) ==
    CASE from = "Draft" -> to \in {"Requested"}
      [] from = "Validated" -> to \in {"Requested"}
      [] from = "Requested" ->
            to \in {"Accepted", "Declined", "Questioned", "Revised", "Cancelled",
                    "Requested"}
      [] from = "Questioned" -> to \in {"Requested", "Revised", "Cancelled"}
      [] from = "Revised" -> to \in {"Accepted", "Declined", "Cancelled", "Requested"}
      [] from = "Accepted" -> to \in {"Fulfilled", "Cancelled"}
      [] from = "Declined" -> FALSE
      [] from = "Cancelled" -> FALSE
      [] from = "Fulfilled" -> to \in {"Completed", "Fulfilled", "Cancelled"}
      [] from = "Completed" -> FALSE

ensure_transition(from, to) ==
    IF from = to THEN TRUE
    ELSE CASE from = "Draft" -> to \in {"Requested"}
           [] from = "Validated" -> to \in {"Requested"}
           [] from = "Requested" ->
                to \in {"Accepted", "Declined", "Questioned", "Revised", "Cancelled",
                        "Requested"}
           [] from = "Questioned" -> to \in {"Requested", "Revised", "Cancelled"}
           [] from = "Revised" -> to \in {"Accepted", "Declined", "Cancelled", "Requested"}
           [] from = "Accepted" -> to \in {"Fulfilled", "Cancelled"}
           [] from = "Declined" -> FALSE
           [] from = "Cancelled" -> FALSE
           [] from = "Fulfilled" -> to \in {"Completed", "Fulfilled", "Cancelled"}
           [] from = "Completed" -> FALSE

\* ------------------------------------------------------------------ store

\* TradeListingState::default()
EmptyState == [validated_listings |-> {}, orders |-> << >>]

mark_listing_validated(st, listing_addr) ==
    [st EXCEPT !.validated_listings = @ \cup {listing_addr}]

is_listing_validated(st, listing_addr) == listing_addr \in st.validated_listings

order_exists(st, order_id) == order_id \in DOMAIN st.orders

\* insert_order into a map that keeps no other order.
insert_order_alone(st, order) ==
    [st EXCEPT !.orders = [o \in {order.order_id} |-> order]]

insert_order(st, order) ==
    [st EXCEPT !.orders =
        [o \in DOMAIN st.orders \cup {order.order_id} |->
            IF o = order.order_id THEN order ELSE st.orders[o]]]

is_event_seen(st, order_id, event_id) ==
    IF order_id \in DOMAIN st.orders
    THEN event_id \in st.orders[order_id].seen_event_ids
    ELSE FALSE

\* mark_event_seen that answers true for every order in the store.
mark_event_seen_always_fresh(st, order_id, event_id) ==
    IF order_id \in DOMAIN st.orders
    THEN [st |-> [st EXCEPT !.orders[order_id].seen_event_ids = @ \cup {event_id}],
          ret |-> TRUE]
    ELSE [st |-> st, ret |-> FALSE]

\* mark_event_seen: the store after the call and the value returned, which is
\* HashSet::insert's (true if the id was not in the set) or false if the
\* order is not in the map.
mark_event_seen(st, order_id, event_id) ==
    IF order_id \in DOMAIN st.orders
    THEN [st |-> [st EXCEPT !.orders[order_id].seen_event_ids = @ \cup {event_id}],
          ret |-> event_id \notin st.orders[order_id].seen_event_ids]
    ELSE [st |-> st, ret |-> FALSE]

\* --------------------------------------------------------------- handlers

\* What a handler leaves behind when it releases the lock: the store, its
\* result so far ("Ok" or the error) and the envelope it goes on to send.
Result(st, res, out) == [st |-> st, res |-> res, out |-> out]

\* send_envelope's arguments.
Envelope(recipient, message_type, listing_addr, order_id, payload) ==
    Some([recipient |-> recipient, message_type |-> message_type,
          listing_addr |-> listing_addr, order_id |-> order_id, payload |-> payload])

\* send_envelope with the d tag pushed whether or not there is an order id.
send_envelope_always_d(recipient_pubkey, message_type, listing_addr, order_id, payload) ==
    [kind |-> message_type_kind(message_type),
     tags |-> <<<<"p", recipient_pubkey>>, <<"a", listing_addr>>,
                <<"d", IF order_id = None THEN "" ELSE order_id[1]>>>>,
     content |-> [json_ok |-> TRUE, message_type |-> message_type,
                  listing_addr |-> listing_addr, order_id |-> order_id,
                  payload |-> payload]]

\* send_envelope: the event handed to the transport. The content is the
\* envelope, the tags are pushed in the order p, a, d, the d tag only with an
\* order id, and the kind is the message type's.
send_envelope(recipient_pubkey, message_type, listing_addr, order_id, payload) ==
    [kind |-> message_type_kind(message_type),
     tags |-> <<<<"p", recipient_pubkey>>, <<"a", listing_addr>>>>
                \o (IF order_id = None THEN << >> ELSE <<<<"d", order_id[1]>>>>),
     content |-> [json_ok |-> TRUE, message_type |-> message_type,
                  listing_addr |-> listing_addr, order_id |-> order_id,
                  payload |-> payload]]

\* Commit without the insert of the event id into seen_event_ids.
Commit_unrecorded(st, order_id, next_status, event_id) ==
    [st EXCEPT !.orders[order_id] = [@ EXCEPT !.status = next_status]]

\* Commit that sets seen_event_ids to the one event id.
Commit_overwrite(st, order_id, next_status, event_id) ==
    [st EXCEPT !.orders[order_id] =
        [@ EXCEPT !.status = next_status, !.seen_event_ids = {event_id}]]

\* order.status = next_status; order.seen_event_ids.insert(event_id)
Commit(st, order_id, next_status, event_id) ==
    [st EXCEPT !.orders[order_id] =
        [@ EXCEPT !.status = next_status,
                  !.seen_event_ids = @ \cup {event_id}]]

\* order.seen_event_ids.insert(event_id)
MarkSeen(st, order_id, event_id) ==
    [st EXCEPT !.orders[order_id].seen_event_ids = @ \cup {event_id}]

\* handle_order_request that inserts the order with no event id recorded.
handle_order_request_unseen(st, event, payload, listing_addr, order_id) ==
    IF order_id = None THEN Result(st, "MissingTag", None)
    ELSE LET oid == order_id[1] IN
    IF payload.order_id # Some(oid)
       \/ payload.listing_addr # TradeListingAddress_as_str(listing_addr)
    THEN Result(st, "InvalidOrder", None)
    ELSE IF ~is_listing_validated(st, payload.listing_addr)
    THEN Result(st, "ListingNotValidated", None)
    ELSE IF order_exists(st, oid) THEN Result(st, "Ok", None)
    ELSE IF payload.buyer_pubkey # pubkey_to_string(event.pubkey)
            \/ payload.seller_pubkey # listing_addr.seller_pubkey
    THEN Result(st, "Unauthorized", None)
    ELSE Result(
            insert_order(st, [order_id |-> oid,
                              listing_addr |-> payload.listing_addr,
                              buyer_pubkey |-> payload.buyer_pubkey,
                              seller_pubkey |-> payload.seller_pubkey,
                              status |-> "Requested",
                              seen_event_ids |-> {}]),
            "Ok",
            Envelope(payload.seller_pubkey, "OrderRequest", payload.listing_addr,
                     Some(oid), payload))

\* handle_order_request without the check of order_exists.
handle_order_request_reinsert(st, event, payload, listing_addr, order_id) ==
    IF order_id = None THEN Result(st, "MissingTag", None)
    ELSE LET oid == order_id[1] IN
    IF payload.order_id # Some(oid)
       \/ payload.listing_addr # TradeListingAddress_as_str(listing_addr)
    THEN Result(st, "InvalidOrder", None)
    ELSE IF ~is_listing_validated(st, payload.listing_addr)
    THEN Result(st, "ListingNotValidated", None)
    ELSE IF payload.buyer_pubkey # pubkey_to_string(event.pubkey)
            \/ payload.seller_pubkey # listing_addr.seller_pubkey
    THEN Result(st, "Unauthorized", None)
    ELSE Result(
            insert_order(st, [order_id |-> oid,
                              listing_addr |-> payload.listing_addr,
                              buyer_pubkey |-> payload.buyer_pubkey,
                              seller_pubkey |-> payload.seller_pubkey,
                              status |-> "Requested",
                              seen_event_ids |-> {event.id}]),
            "Ok",
            Envelope(payload.seller_pubkey, "OrderRequest", payload.listing_addr,
                     Some(oid), payload))

\* handle_order_request without the check of is_listing_validated.
handle_order_request_unvalidated(st, event, payload, listing_addr, order_id) ==
    IF order_id = None THEN Result(st, "MissingTag", None)
    ELSE LET oid == order_id[1] IN
    IF payload.order_id # Some(oid)
       \/ payload.listing_addr # TradeListingAddress_as_str(listing_addr)
    THEN Result(st, "InvalidOrder", None)
    ELSE IF order_exists(st, oid) THEN Result(st, "Ok", None)
    ELSE IF payload.buyer_pubkey # pubkey_to_string(event.pubkey)
            \/ payload.seller_pubkey # listing_addr.seller_pubkey
    THEN Result(st, "Unauthorized", None)
    ELSE Result(
            insert_order(st, [order_id |-> oid,
                              listing_addr |-> payload.listing_addr,
                              buyer_pubkey |-> payload.buyer_pubkey,
                              seller_pubkey |-> payload.seller_pubkey,
                              status |-> "Requested",
                              seen_event_ids |-> {event.id}]),
            "Ok",
            Envelope(payload.seller_pubkey, "OrderRequest", payload.listing_addr,
                     Some(oid), payload))

\* handle_order_request without the check of the payload's listing address
\* against the envelope's.
handle_order_request_anyaddr(st, event, payload, listing_addr, order_id) ==
    IF order_id = None THEN Result(st, "MissingTag", None)
    ELSE LET oid == order_id[1] IN
    IF payload.order_id # Some(oid)
    THEN Result(st, "InvalidOrder", None)
    ELSE IF ~is_listing_validated(st, payload.listing_addr)
    THEN Result(st, "ListingNotValidated", None)
    ELSE IF order_exists(st, oid) THEN Result(st, "Ok", None)
    ELSE IF payload.buyer_pubkey # pubkey_to_string(event.pubkey)
            \/ payload.seller_pubkey # listing_addr.seller_pubkey
    THEN Result(st, "Unauthorized", None)
    ELSE Result(
            insert_order(st, [order_id |-> oid,
                              listing_addr |-> payload.listing_addr,
                              buyer_pubkey |-> payload.buyer_pubkey,
                              seller_pubkey |-> payload.seller_pubkey,
                              status |-> "Requested",
                              seen_event_ids |-> {event.id}]),
            "Ok",
            Envelope(payload.seller_pubkey, "OrderRequest", payload.listing_addr,
                     Some(oid), payload))

handle_order_request(st, event, payload, listing_addr, order_id) ==
    IF order_id = None THEN Result(st, "MissingTag", None)
    ELSE LET oid == order_id[1] IN
    IF payload.order_id # Some(oid)
       \/ payload.listing_addr # TradeListingAddress_as_str(listing_addr)
    THEN Result(st, "InvalidOrder", None)
    ELSE IF ~is_listing_validated(st, payload.listing_addr)
    THEN Result(st, "ListingNotValidated", None)
    ELSE IF order_exists(st, oid) THEN Result(st, "Ok", None)
    ELSE IF payload.buyer_pubkey # pubkey_to_string(event.pubkey)
            \/ payload.seller_pubkey # listing_addr.seller_pubkey
    THEN Result(st, "Unauthorized", None)
    ELSE Result(
            insert_order(st, [order_id |-> oid,
                              listing_addr |-> payload.listing_addr,
                              buyer_pubkey |-> payload.buyer_pubkey,
                              seller_pubkey |-> payload.seller_pubkey,
                              status |-> "Requested",
                              seen_event_ids |-> {event.id}]),
            "Ok",
            Envelope(payload.seller_pubkey, "OrderRequest", payload.listing_addr,
                     Some(oid), payload))

\* handle_order_response without the call of ensure_transition.
handle_order_response_unchecked(st, event, payload, listing_addr, order_id) ==
    IF order_id = None THEN Result(st, "MissingTag", None)
    ELSE LET oid == order_id[1] IN
    IF is_event_seen(st, oid, event.id) THEN Result(st, "Ok", None)
    ELSE IF ~order_exists(st, oid) THEN Result(st, "MissingOrder", None)
    ELSE LET order == st.orders[oid]
             next_status == IF payload.accepted THEN "Accepted" ELSE "Declined"
         IN
    IF order.seller_pubkey # pubkey_to_string(event.pubkey)
    THEN Result(st, "Unauthorized", None)
    ELSE Result(Commit(st, oid, next_status, event.id), "Ok",
                Envelope(order.buyer_pubkey, "OrderResponse", order.listing_addr,
                         Some(oid), payload))

handle_order_response(st, event, payload, listing_addr, order_id) ==
    IF order_id = None THEN Result(st, "MissingTag", None)
    ELSE LET oid == order_id[1] IN
    IF is_event_seen(st, oid, event.id) THEN Result(st, "Ok", None)
    ELSE IF ~order_exists(st, oid) THEN Result(st, "MissingOrder", None)
    ELSE LET order == st.orders[oid]
             next_status == IF payload.accepted THEN "Accepted" ELSE "Declined"
         IN
    IF order.seller_pubkey # pubkey_to_string(event.pubkey)
    THEN Result(st, "Unauthorized", None)
    ELSE IF ~ensure_transition(order.status, next_status)
    THEN Result(st, "InvalidTransition", None)
    ELSE Result(Commit(st, oid, next_status, event.id), "Ok",
                Envelope(order.buyer_pubkey, "OrderResponse", order.listing_addr,
                         Some(oid), payload))

handle_order_revision(st, event, payload, listing_addr, order_id) ==
    IF order_id = None THEN Result(st, "MissingTag", None)
    ELSE LET oid == order_id[1] IN
    IF payload.order_id # Some(oid) THEN Result(st, "InvalidOrder", None)
    ELSE IF is_event_seen(st, oid, event.id) THEN Result(st, "Ok", None)
    ELSE IF ~order_exists(st, oid) THEN Result(st, "MissingOrder", None)
    ELSE LET order == st.orders[oid] IN
    IF order.seller_pubkey # pubkey_to_string(event.pubkey)
       \/ listing_addr.seller_pubkey # order.seller_pubkey
    THEN Result(st, "Unauthorized", None)
    ELSE IF ~ensure_transition(order.status, "Revised")
    THEN Result(st, "InvalidTransition", None)
    ELSE Result(Commit(st, oid, "Revised", event.id), "Ok",
                Envelope(order.buyer_pubkey, "OrderRevision", order.listing_addr,
                         Some(oid), payload))

\* handle_order_revision_response that takes the decision from the message
\* type alone and does not read payload.accepted.
handle_order_revision_response_by_type(st, event, message_type, payload, listing_addr, order_id) ==
    IF order_id = None THEN Result(st, "MissingTag", None)
    ELSE LET oid == order_id[1] IN
    IF is_event_seen(st, oid, event.id) THEN Result(st, "Ok", None)
    ELSE IF ~order_exists(st, oid) THEN Result(st, "MissingOrder", None)
    ELSE LET order == st.orders[oid]
             next_status == IF message_type = "OrderRevisionAccept"
                            THEN "Accepted" ELSE "Declined"
         IN
    IF order.buyer_pubkey # pubkey_to_string(event.pubkey)
    THEN Result(st, "Unauthorized", None)
    ELSE IF ~ensure_transition(order.status, next_status)
    THEN Result(st, "InvalidTransition", None)
    ELSE Result(Commit(st, oid, next_status, event.id), "Ok",
                Envelope(order.seller_pubkey, message_type, order.listing_addr,
                         Some(oid), payload))

handle_order_revision_response(st, event, message_type, payload, listing_addr, order_id) ==
    IF order_id = None THEN Result(st, "MissingTag", None)
    ELSE LET oid == order_id[1] IN
    IF is_event_seen(st, oid, event.id) THEN Result(st, "Ok", None)
    ELSE IF ~order_exists(st, oid) THEN Result(st, "MissingOrder", None)
    ELSE LET order == st.orders[oid]
             next_status == IF message_type = "OrderRevisionAccept"
                            THEN "Accepted" ELSE "Declined"
         IN
    IF order.buyer_pubkey # pubkey_to_string(event.pubkey)
    THEN Result(st, "Unauthorized", None)
    ELSE IF message_type = "OrderRevisionAccept" /\ ~payload.accepted
    THEN Result(st, "InvalidOrder", None)
    ELSE IF message_type = "OrderRevisionDecline" /\ payload.accepted
    THEN Result(st, "InvalidOrder", None)
    ELSE IF ~ensure_transition(order.status, next_status)
    THEN Result(st, "InvalidTransition", None)
    ELSE Result(Commit(st, oid, next_status, event.id), "Ok",
                Envelope(order.seller_pubkey, message_type, order.listing_addr,
                         Some(oid), payload))

handle_question(st, event, payload, listing_addr, order_id) ==
    IF order_id = None THEN Result(st, "MissingTag", None)
    ELSE LET oid == order_id[1] IN
    IF payload.order_id # None /\ payload.order_id # Some(oid)
    THEN Result(st, "InvalidOrder", None)
    ELSE IF is_event_seen(st, oid, event.id) THEN Result(st, "Ok", None)
    ELSE IF ~order_exists(st, oid) THEN Result(st, "MissingOrder", None)
    ELSE LET order == st.orders[oid] IN
    IF order.buyer_pubkey # pubkey_to_string(event.pubkey)
    THEN Result(st, "Unauthorized", None)
    ELSE IF ~ensure_transition(order.status, "Questioned")
    THEN Result(st, "InvalidTransition", None)
    ELSE Result(Commit(st, oid, "Questioned", event.id), "Ok",
                Envelope(order.seller_pubkey, "Question", order.listing_addr,
                         Some(oid), payload))

\* handle_answer that answers an open question only: the order must be
\* Questioned.
handle_answer_questioned_only(st, event, payload, listing_addr, order_id) ==
    IF order_id = None THEN Result(st, "MissingTag", None)
    ELSE LET oid == order_id[1] IN
    IF payload.order_id # None /\ payload.order_id # Some(oid)
    THEN Result(st, "InvalidOrder", None)
    ELSE IF is_event_seen(st, oid, event.id) THEN Result(st, "Ok", None)
    ELSE IF ~order_exists(st, oid) THEN Result(st, "MissingOrder", None)
    ELSE LET order == st.orders[oid] IN
    IF order.seller_pubkey # pubkey_to_string(event.pubkey)
       \/ listing_addr.seller_pubkey # order.seller_pubkey
    THEN Result(st, "Unauthorized", None)
    ELSE IF order.status # "Questioned"
    THEN Result(st, "InvalidTransition", None)
    ELSE Result(Commit(st, oid, "Requested", event.id), "Ok",
                Envelope(order.buyer_pubkey, "Answer", order.listing_addr,
                         Some(oid), payload))

handle_answer(st, event, payload, listing_addr, order_id) ==
    IF order_id = None THEN Result(st, "MissingTag", None)
    ELSE LET oid == order_id[1] IN
    IF payload.order_id # None /\ payload.order_id # Some(oid)
    THEN Result(st, "InvalidOrder", None)
    ELSE IF is_event_seen(st, oid, event.id) THEN Result(st, "Ok", None)
    ELSE IF ~order_exists(st, oid) THEN Result(st, "MissingOrder", None)
    ELSE LET order == st.orders[oid] IN
    IF order.seller_pubkey # pubkey_to_string(event.pubkey)
       \/ listing_addr.seller_pubkey # order.seller_pubkey
    THEN Result(st, "Unauthorized", None)
    ELSE IF ~ensure_transition(order.status, "Requested")
    THEN Result(st, "InvalidTransition", None)
    ELSE Result(Commit(st, oid, "Requested", event.id), "Ok",
                Envelope(order.buyer_pubkey, "Answer", order.listing_addr,
                         Some(oid), payload))

\* handle_discount_request that refuses an order in a final status.
handle_discount_request_open_only(st, event, payload, listing_addr, order_id) ==
    IF order_id = None THEN Result(st, "MissingTag", None)
    ELSE LET oid == order_id[1] IN
    IF payload.order_id # Some(oid) THEN Result(st, "InvalidOrder", None)
    ELSE IF is_event_seen(st, oid, event.id) THEN Result(st, "Ok", None)
    ELSE IF ~order_exists(st, oid) THEN Result(st, "MissingOrder", None)
    ELSE LET order == st.orders[oid] IN
    IF order.buyer_pubkey # pubkey_to_string(event.pubkey)
    THEN Result(st, "Unauthorized", None)
    ELSE IF order.status \in Terminal
    THEN Result(st, "InvalidTransition", None)
    ELSE Result(MarkSeen(st, oid, event.id), "Ok",
                Envelope(order.seller_pubkey, "DiscountRequest", order.listing_addr,
                         Some(oid), payload))

handle_discount_request(st, event, payload, listing_addr, order_id) ==
    IF order_id = None THEN Result(st, "MissingTag", None)
    ELSE LET oid == order_id[1] IN
    IF payload.order_id # Some(oid) THEN Result(st, "InvalidOrder", None)
    ELSE IF is_event_seen(st, oid, event.id) THEN Result(st, "Ok", None)
    ELSE IF ~order_exists(st, oid) THEN Result(st, "MissingOrder", None)
    ELSE LET order == st.orders[oid] IN
    IF order.buyer_pubkey # pubkey_to_string(event.pubkey)
    THEN Result(st, "Unauthorized", None)
    ELSE Result(MarkSeen(st, oid, event.id), "Ok",
                Envelope(order.seller_pubkey, "DiscountRequest", order.listing_addr,
                         Some(oid), payload))

handle_discount_offer(st, event, payload, listing_addr, order_id) ==
    IF order_id = None THEN Result(st, "MissingTag", None)
    ELSE LET oid == order_id[1] IN
    IF payload.order_id # Some(oid) THEN Result(st, "InvalidOrder", None)
    ELSE IF is_event_seen(st, oid, event.id) THEN Result(st, "Ok", None)
    ELSE IF ~order_exists(st, oid) THEN Result(st, "MissingOrder", None)
    ELSE LET order == st.orders[oid] IN
    IF order.seller_pubkey # pubkey_to_string(event.pubkey)
    THEN Result(st, "Unauthorized", None)
    ELSE IF ~ensure_transition(order.status, "Revised")
    THEN Result(st, "InvalidTransition", None)
    ELSE Result(Commit(st, oid, "Revised", event.id), "Ok",
                Envelope(order.buyer_pubkey, "DiscountOffer", order.listing_addr,
                         Some(oid), payload))

handle_discount_decision(st, event, message_type, payload, listing_addr, order_id) ==
    IF order_id = None THEN Result(st, "MissingTag", None)
    ELSE LET oid == order_id[1] IN
    IF is_event_seen(st, oid, event.id) THEN Result(st, "Ok", None)
    ELSE IF ~order_exists(st, oid) THEN Result(st, "MissingOrder", None)
    ELSE LET order == st.orders[oid]
             payload_is_accept == payload.variant = "Accept"
             payload_is_decline == payload.variant = "Decline"
             next_status == CASE message_type = "DiscountAccept" -> "Accepted"
                              [] message_type = "DiscountDecline" -> "Requested"
                              [] OTHER -> order.status
         IN
    IF order.buyer_pubkey # pubkey_to_string(event.pubkey)
    THEN Result(st, "Unauthorized", None)
    ELSE IF message_type = "DiscountAccept" /\ ~payload_is_accept
    THEN Result(st, "InvalidOrder", None)
    ELSE IF message_type = "DiscountDecline" /\ ~payload_is_decline
    THEN Result(st, "InvalidOrder", None)
    ELSE IF ~ensure_transition(order.status, next_status)
    THEN Result(st, "InvalidTransition", None)
    ELSE Result(Commit(st, oid, next_status, event.id), "Ok",
                Envelope(order.seller_pubkey, message_type, order.listing_addr,
                         Some(oid), payload))

\* handle_cancel without the check of the sender against the order's parties.
handle_cancel_anyone(st, event, payload, listing_addr, order_id) ==
    IF order_id = None THEN Result(st, "MissingTag", None)
    ELSE LET oid == order_id[1] IN
    IF is_event_seen(st, oid, event.id) THEN Result(st, "Ok", None)
    ELSE IF ~order_exists(st, oid) THEN Result(st, "MissingOrder", None)
    ELSE LET order == st.orders[oid]
             sender == pubkey_to_string(event.pubkey)
             recipient == IF sender = order.buyer_pubkey
                          THEN order.seller_pubkey ELSE order.buyer_pubkey
         IN
    IF ~ensure_transition(order.status, "Cancelled")
    THEN Result(st, "InvalidTransition", None)
    ELSE Result(Commit(st, oid, "Cancelled", event.id), "Ok",
                Envelope(recipient, "Cancel", order.listing_addr, Some(oid), payload))

\* handle_cancel that always forwards the Cancel to the buyer.
handle_cancel_to_buyer(st, event, payload, listing_addr, order_id) ==
    IF order_id = None THEN Result(st, "MissingTag", None)
    ELSE LET oid == order_id[1] IN
    IF is_event_seen(st, oid, event.id) THEN Result(st, "Ok", None)
    ELSE IF ~order_exists(st, oid) THEN Result(st, "MissingOrder", None)
    ELSE LET order == st.orders[oid]
             sender == pubkey_to_string(event.pubkey)
             recipient == order.buyer_pubkey
         IN
    IF sender # order.buyer_pubkey /\ sender # order.seller_pubkey
    THEN Result(st, "Unauthorized", None)
    ELSE IF ~ensure_transition(order.status, "Cancelled")
    THEN Result(st, "InvalidTransition", None)
    ELSE Result(Commit(st, oid, "Cancelled", event.id), "Ok",
                Envelope(recipient, "Cancel", order.listing_addr, Some(oid), payload))

handle_cancel(st, event, payload, listing_addr, order_id) ==
    IF order_id = None THEN Result(st, "MissingTag", None)
    ELSE LET oid == order_id[1] IN
    IF is_event_seen(st, oid, event.id) THEN Result(st, "Ok", None)
    ELSE IF ~order_exists(st, oid) THEN Result(st, "MissingOrder", None)
    ELSE LET order == st.orders[oid]
             sender == pubkey_to_string(event.pubkey)
             recipient == IF sender = order.buyer_pubkey
                          THEN order.seller_pubkey ELSE order.buyer_pubkey
         IN
    IF sender # order.buyer_pubkey /\ sender # order.seller_pubkey
    THEN Result(st, "Unauthorized", None)
    ELSE IF ~ensure_transition(order.status, "Cancelled")
    THEN Result(st, "InvalidTransition", None)
    ELSE Result(Commit(st, oid, "Cancelled", event.id), "Ok",
                Envelope(recipient, "Cancel", order.listing_addr, Some(oid), payload))

\* handle_fulfillment_update that records the event id before it checks the
\* transition.
handle_fulfillment_update_eager(st, event, payload, listing_addr, order_id) ==
    IF order_id = None THEN Result(st, "MissingTag", None)
    ELSE LET oid == order_id[1] IN
    IF is_event_seen(st, oid, event.id) THEN Result(st, "Ok", None)
    ELSE IF ~order_exists(st, oid) THEN Result(st, "MissingOrder", None)
    ELSE LET order == st.orders[oid] IN
    IF order.seller_pubkey # pubkey_to_string(event.pubkey)
    THEN Result(st, "Unauthorized", None)
    ELSE IF ~ensure_transition(order.status, "Fulfilled")
    THEN Result(MarkSeen(st, oid, event.id), "InvalidTransition", None)
    ELSE Result(Commit(st, oid, "Fulfilled", event.id), "Ok",
                Envelope(order.buyer_pubkey, "FulfillmentUpdate", order.listing_addr,
                         Some(oid), payload))

handle_fulfillment_update(st, event, payload, listing_addr, order_id) ==
    IF order_id = None THEN Result(st, "MissingTag", None)
    ELSE LET oid == order_id[1] IN
    IF is_event_seen(st, oid, event.id) THEN Result(st, "Ok", None)
    ELSE IF ~order_exists(st, oid) THEN Result(st, "MissingOrder", None)
    ELSE LET order == st.orders[oid] IN
    IF order.seller_pubkey # pubkey_to_string(event.pubkey)
    THEN Result(st, "Unauthorized", None)
    ELSE IF ~ensure_transition(order.status, "Fulfilled")
    THEN Result(st, "InvalidTransition", None)
    ELSE Result(Commit(st, oid, "Fulfilled", event.id), "Ok",
                Envelope(order.buyer_pubkey, "FulfillmentUpdate", order.listing_addr,
                         Some(oid), payload))

\* handle_receipt without the check of seen_event_ids.
handle_receipt_unseen(st, event, payload, listing_addr, order_id) ==
    IF order_id = None THEN Result(st, "MissingTag", None)
    ELSE LET oid == order_id[1] IN
    IF ~order_exists(st, oid) THEN Result(st, "MissingOrder", None)
    ELSE LET order == st.orders[oid] IN
    IF order.buyer_pubkey # pubkey_to_string(event.pubkey)
    THEN Result(st, "Unauthorized", None)
    ELSE IF ~ensure_transition(order.status, "Completed")
    THEN Result(st, "InvalidTransition", None)
    ELSE Result(Commit(st, oid, "Completed", event.id), "Ok",
                Envelope(order.seller_pubkey, "Receipt", order.listing_addr,
                         Some(oid), payload))

handle_receipt(st, event, payload, listing_addr, order_id) ==
    IF order_id = None THEN Result(st, "MissingTag", None)
    ELSE LET oid == order_id[1] IN
    IF is_event_seen(st, oid, event.id) THEN Result(st, "Ok", None)
    ELSE IF ~order_exists(st, oid) THEN Result(st, "MissingOrder", None)
    ELSE LET order == st.orders[oid] IN
    IF order.buyer_pubkey # pubkey_to_string(event.pubkey)
    THEN Result(st, "Unauthorized", None)
    ELSE IF ~ensure_transition(order.status, "Completed")
    THEN Result(st, "InvalidTransition", None)
    ELSE Result(Commit(st, oid, "Completed", event.id), "Ok",
                Envelope(order.seller_pubkey, "Receipt", order.listing_addr,
                         Some(oid), payload))

\* The outcome of resolving the listing event over the transport and of
\* validate_listing_event on it.
FetchOutcomes == {"valid", "invalid", "not_found", "failed"}

ValidateResult(valid, errors) ==
    [shape |-> "TradeListingValidateResult", valid |-> valid, errors |-> errors]

\* send_validate_result
send_validate_result(event, listing_addr, errors) ==
    Envelope(pubkey_to_string(event.pubkey), "ListingValidateResult", listing_addr, None,
             ValidateResult(errors = {}, errors))

\* handle_listing_validate_request that marks the listing for every listing
\* event the fetch returned, valid or not.
handle_listing_validate_request_unchecked(st, event, payload, listing_addr, fetched) ==
    IF fetched = "failed"
    THEN Result(st, "Ok",
                send_validate_result(event, listing_addr, {"ListingEventFetchFailed"}))
    ELSE IF fetched = "not_found"
    THEN Result(st, "Ok",
                send_validate_result(event, listing_addr, {"ListingEventNotFound"}))
    ELSE IF fetched = "valid"
    THEN Result(mark_listing_validated(st, listing_addr), "Ok",
                send_validate_result(event, listing_addr, {}))
    ELSE Result(mark_listing_validated(st, listing_addr), "Ok",
                send_validate_result(event, listing_addr, {"InvalidListing"}))

\* handle_listing_validate_request that takes an empty result of the fetch for
\* a failed fetch.
handle_listing_validate_request_no_event(st, event, payload, listing_addr, fetched) ==
    IF fetched \in {"failed", "not_found"}
    THEN Result(st, "Ok",
                send_validate_result(event, listing_addr, {"ListingEventFetchFailed"}))
    ELSE IF fetched = "valid"
    THEN Result(mark_listing_validated(st, listing_addr), "Ok",
                send_validate_result(event, listing_addr, {}))
    ELSE Result(st, "Ok", send_validate_result(event, listing_addr, {"InvalidListing"}))

handle_listing_validate_request(st, event, payload, listing_addr, fetched) ==
    IF fetched = "failed"
    THEN Result(st, "Ok",
                send_validate_result(event, listing_addr, {"ListingEventFetchFailed"}))
    ELSE IF fetched = "not_found"
    THEN Result(st, "Ok",
                send_validate_result(event, listing_addr, {"ListingEventNotFound"}))
    ELSE IF fetched = "valid"
    THEN Result(mark_listing_validated(st, listing_addr), "Ok",
                send_validate_result(event, listing_addr, {}))
    ELSE Result(st, "Ok", send_validate_result(event, listing_addr, {"InvalidListing"}))

\* ---------------------------------------------------------------- dispatch

\* find_map over the tags from the i-th on: the value of the first tag that
\* has this key and a value.
RECURSIVE TagFrom(_, _, _)
TagFrom(tags, key, i) ==
    IF i > Len(tags) THEN None
    ELSE IF Len(tags[i]) >= 2 /\ tags[i][1] = key THEN Some(tags[i][2])
    ELSE TagFrom(tags, key, i + 1)

\* tag_value where the first tag with this key decides, with or without a
\* value.
tag_value_first_key(tags, key) ==
    LET at == {i \in 1..Len(tags) : Len(tags[i]) >= 1 /\ tags[i][1] = key}
        first == CHOOSE i \in at : \A j \in at : i <= j
    IN IF at = {} THEN None
       ELSE IF Len(tags[first]) >= 2 THEN Some(tags[first][2]) ELSE None

\* tag_value: the value of the first tag with this key that has one.
tag_value(tags, key) == TagFrom(tags, key, 1)

tag_has_value(tags, key, value) ==
    \E i \in 1..Len(tags) : Len(tags[i]) >= 2 /\ tags[i][1] = key /\ tags[i][2] = value

\* The comparison of the author with the daemon's key, never true.
is_own_event_never(event) == FALSE

\* event.pubkey == keys.public_key()
is_own_event(event) == event.pubkey = Rhi

\* The Rust type each message type's payload is deserialized into.
PayloadType(mt) ==
    CASE mt = "ListingValidateRequest" -> "TradeListingValidateRequest"
      [] mt = "ListingValidateResult" -> "TradeListingValidateResult"
      [] mt = "OrderRequest" -> "TradeOrder"
      [] mt = "OrderResponse" -> "TradeOrderResponse"
      [] mt = "OrderRevision" -> "TradeOrderRevision"
      [] mt \in {"OrderRevisionAccept", "OrderRevisionDecline"} -> "TradeOrderRevisionResponse"
      [] mt = "Question" -> "TradeQuestion"
      [] mt = "Answer" -> "TradeAnswer"
      [] mt = "DiscountRequest" -> "TradeDiscountRequest"
      [] mt = "DiscountOffer" -> "TradeDiscountOffer"
      [] mt \in {"DiscountAccept", "DiscountDecline"} -> "TradeDiscountDecision"
      [] mt = "Cancel" -> "TradeListingCancel"
      [] mt = "FulfillmentUpdate" -> "TradeFulfillmentUpdate"
      [] mt = "Receipt" -> "TradeReceipt"

\* parse_payload::<T>: whether the JSON value deserializes into T.
parse_payload(payload, type) == payload.shape = type

\* TradeListingEnvelope::validate
envelope_validate(envelope) ==
    /\ envelope.listing_addr # << >>
    /\ requires_order_id(envelope.message_type) <=> envelope.order_id # None

\* handle_event without the comparison of the address's kind with 30402.
handle_event_any_kind(st, event, fetched) ==
    LET kind == event.kind
        tags == event.tags
        envelope == event.content
        mt == envelope.message_type
        listing_addr == tag_value(tags, "a")
        order_id == envelope.order_id
        tag_order_id == tag_value(tags, "d")
        listing_addr_parsed == TradeListingAddress_parse(listing_addr[1])
        payload == envelope.payload
    IN
    IF ~is_trade_listing_dvm_kind(kind) THEN Result(st, "UnsupportedKind", None)
    ELSE IF is_own_event(event) THEN Result(st, "Ok", None)
    ELSE IF ~tag_has_value(tags, "p", pubkey_to_string(Rhi))
    THEN Result(st, "MissingRecipient", None)
    ELSE IF ~envelope.json_ok THEN Result(st, "Serde", None)
    ELSE IF ~envelope_validate(envelope) THEN Result(st, "InvalidEnvelope", None)
    ELSE IF message_type_kind(mt) # kind THEN Result(st, "TagMismatch", None)
    ELSE IF listing_addr = None THEN Result(st, "MissingTag", None)
    ELSE IF listing_addr[1] # envelope.listing_addr THEN Result(st, "TagMismatch", None)
    ELSE IF requires_order_id(mt) /\ tag_order_id = None
    THEN Result(st, "MissingTag", None)
    ELSE IF requires_order_id(mt) /\ tag_order_id # order_id
    THEN Result(st, "TagMismatch", None)
    ELSE IF ~listing_addr_parsed.ok THEN Result(st, "InvalidListingAddr", None)
    ELSE IF mt = "ListingValidateResult" THEN Result(st, "Ok", None)
    ELSE IF ~parse_payload(payload, PayloadType(mt))
    THEN Result(st, "InvalidPayload", None)
    ELSE CASE mt = "ListingValidateRequest" ->
                handle_listing_validate_request(st, event, payload, listing_addr[1], fetched)
           [] mt = "OrderRequest" ->
                handle_order_request(st, event, payload, listing_addr_parsed, order_id)
           [] mt = "OrderResponse" ->
                handle_order_response(st, event, payload, listing_addr_parsed, order_id)
           [] mt = "OrderRevision" ->
                handle_order_revision(st, event, payload, listing_addr_parsed, order_id)
           [] mt \in {"OrderRevisionAccept", "OrderRevisionDecline"} ->
                handle_order_revision_response(st, event, mt, payload,
                                               listing_addr_parsed, order_id)
           [] mt = "Question" ->
                handle_question(st, event, payload, listing_addr_parsed, order_id)
           [] mt = "Answer" ->
                handle_answer(st, event, payload, listing_addr_parsed, order_id)
           [] mt = "DiscountRequest" ->
                handle_discount_request(st, event, payload, listing_addr_parsed, order_id)
           [] mt = "DiscountOffer" ->
                handle_discount_offer(st, event, payload, listing_addr_parsed, order_id)
           [] mt \in {"DiscountAccept", "DiscountDecline"} ->
                handle_discount_decision(st, event, mt, payload,
                                         listing_addr_parsed, order_id)
           [] mt = "Cancel" ->
                handle_cancel(st, event, payload, listing_addr_parsed, order_id)
           [] mt = "FulfillmentUpdate" ->
                handle_fulfillment_update(st, event, payload, listing_addr_parsed, order_id)
           [] mt = "Receipt" ->
                handle_receipt(st, event, payload, listing_addr_parsed, order_id)

handle_event(st, event, fetched) ==
    LET kind == event.kind
        tags == event.tags
        envelope == event.content
        mt == envelope.message_type
        listing_addr == tag_value(tags, "a")
        order_id == envelope.order_id
        tag_order_id == tag_value(tags, "d")
        listing_addr_parsed == TradeListingAddress_parse(listing_addr[1])
        payload == envelope.payload
    IN
    IF ~is_trade_listing_dvm_kind(kind) THEN Result(st, "UnsupportedKind", None)
    ELSE IF is_own_event(event) THEN Result(st, "Ok", None)
    ELSE IF ~tag_has_value(tags, "p", pubkey_to_string(Rhi))
    THEN Result(st, "MissingRecipient", None)
    ELSE IF ~envelope.json_ok THEN Result(st, "Serde", None)
    ELSE IF ~envelope_validate(envelope) THEN Result(st, "InvalidEnvelope", None)
    ELSE IF message_type_kind(mt) # kind THEN Result(st, "TagMismatch", None)
    ELSE IF listing_addr = None THEN Result(st, "MissingTag", None)
    ELSE IF listing_addr[1] # envelope.listing_addr THEN Result(st, "TagMismatch", None)
    ELSE IF requires_order_id(mt) /\ tag_order_id = None
    THEN Result(st, "MissingTag", None)
    ELSE IF requires_order_id(mt) /\ tag_order_id # order_id
    THEN Result(st, "TagMismatch", None)
    ELSE IF ~listing_addr_parsed.ok THEN Result(st, "InvalidListingAddr", None)
    ELSE IF listing_addr_parsed.kind # ListingKind
    THEN Result(st, "InvalidListingAddr", None)
    ELSE IF mt = "ListingValidateResult" THEN Result(st, "Ok", None)
    ELSE IF ~parse_payload(payload, PayloadType(mt))
    THEN Result(st, "InvalidPayload", None)
    ELSE CASE mt = "ListingValidateRequest" ->
                handle_listing_validate_request(st, event, payload, listing_addr[1], fetched)
           [] mt = "OrderRequest" ->
                handle_order_request(st, event, payload, listing_addr_parsed, order_id)
           [] mt = "OrderResponse" ->
                handle_order_response(st, event, payload, listing_addr_parsed, order_id)
           [] mt = "OrderRevision" ->
                handle_order_revision(st, event, payload, listing_addr_parsed, order_id)
           [] mt \in {"OrderRevisionAccept", "OrderRevisionDecline"} ->
                handle_order_revision_response(st, event, mt, payload,
                                               listing_addr_parsed, order_id)
           [] mt = "Question" ->
                handle_question(st, event, payload, listing_addr_parsed, order_id)
           [] mt = "Answer" ->
                handle_answer(st, event, payload, listing_addr_parsed, order_id)
           [] mt = "DiscountRequest" ->
                handle_discount_request(st, event, payload, listing_addr_parsed, order_id)
           [] mt = "DiscountOffer" ->
                handle_discount_offer(st, event, payload, listing_addr_parsed, order_id)
           [] mt \in {"DiscountAccept", "DiscountDecline"} ->
                handle_discount_decision(st, event, mt, payload,
                                         listing_addr_parsed, order_id)
           [] mt = "Cancel" ->
                handle_cancel(st, event, payload, listing_addr_parsed, order_id)
           [] mt = "FulfillmentUpdate" ->
                handle_fulfillment_update(st, event, payload, listing_addr_parsed, order_id)
           [] mt = "Receipt" ->
                handle_receipt(st, event, payload, listing_addr_parsed, order_id)

\* ------------------------------------------------------------------ events

AddrS == <<"30402", ":", Seller, ":", "x">>
AddrM == <<"30402", ":", Mallory, ":", "x">>
AddrWrongKind == <<"30023", ":", Seller, ":", "x">>
AddrTooBig == <<"70000", ":", Seller, ":", "x">>
AddrShort == <<"30402", ":", Seller>>

BlankPayload(shape) ==
    [shape |-> shape, order_id |-> None, listing_addr |-> << >>,
     buyer_pubkey |-> << >>, seller_pubkey |-> << >>,
     accepted |-> FALSE, variant |-> "-", listing_event |-> FALSE]

\* An event as a peer that follows the wire format builds it: the tags repeat
\* the envelope and the event kind is the message type's.
Event(id, author, mt, listing_addr, order_id, payload) ==
    [id |-> id, pubkey |-> author, kind |-> message_type_kind(mt),
     tags |-> <<<<"p", pubkey_to_string(Rhi)>>, <<"a", listing_addr>>>>
                \o (IF order_id = None THEN << >> ELSE <<<<"d", order_id[1]>>>>),
     content |-> [json_ok |-> TRUE, message_type |-> mt, listing_addr |-> listing_addr,
                  order_id |-> order_id, payload |-> payload]]

ValidateEvents(authors, addrs) ==
    {Event(1, author, "ListingValidateRequest", la, None,
           [BlankPayload("TradeListingValidateRequest") EXCEPT !.listing_event = ptr]) :
        author \in authors, la \in addrs, ptr \in BOOLEAN}

OrderRequestEvents(ids, authors, addrs, oids, buyers, sellers) ==
    {Event(x[1], x[2], "OrderRequest", x[3], Some(x[4]),
           [BlankPayload("TradeOrder") EXCEPT
               !.order_id = Some(x[4]), !.listing_addr = x[3],
               !.buyer_pubkey = pubkey_to_string(x[5]),
               !.seller_pubkey = pubkey_to_string(x[6])]) :
        x \in ids \X authors \X addrs \X oids \X buyers \X sellers}

\* An order id no order of the store has, for payloads that name another order.
OtherOrderId == <<"o9">>

\* The payloads a message type is sent with: both decisions where the payload
\* carries one, and where it names the order, the envelope's order or another.
PayloadsOf(mt, oid) ==
    CASE mt \in {"OrderResponse", "OrderRevisionAccept", "OrderRevisionDecline"} ->
            {[BlankPayload(PayloadType(mt)) EXCEPT !.accepted = a] : a \in BOOLEAN}
      [] mt \in {"DiscountAccept", "DiscountDecline"} ->
            {[BlankPayload(PayloadType(mt)) EXCEPT !.variant = v] : v \in {"Accept", "Decline"}}
      [] mt \in {"OrderRevision", "DiscountRequest", "DiscountOffer"} ->
            {[BlankPayload(PayloadType(mt)) EXCEPT !.order_id = Some(o)] :
                o \in {oid, OtherOrderId}}
      [] mt \in {"Question", "Answer"} ->
            {[BlankPayload(PayloadType(mt)) EXCEPT !.order_id = o] :
                o \in {None, Some(oid), Some(OtherOrderId)}}
      [] OTHER -> {BlankPayload(PayloadType(mt))}

ExistingOrderTypes ==
    TradeListingMessageType \ {"ListingValidateRequest", "ListingValidateResult",
                               "OrderRequest"}

ExistingOrderEvents(ids, authors, addrs, oids) ==
    UNION {{Event(x[1], x[2], x[3], x[4], Some(x[5]), pl) : pl \in PayloadsOf(x[3], x[5])} :
            x \in ids \X authors \X ExistingOrderTypes \X addrs \X oids}

\* OrderRequests whose payload disagrees with the envelope: another order id,
\* another listing address.
MismatchedOrderRequests(ids, oids) ==
    {[e EXCEPT !.content.payload.order_id = Some(OtherOrderId)] :
        e \in OrderRequestEvents(ids, {Buyer}, {AddrS}, oids, {Buyer}, {Seller})}
    \cup {[e EXCEPT !.content.payload.listing_addr = AddrM] :
        e \in OrderRequestEvents(ids, {Buyer}, {AddrS}, oids, {Buyer}, {Seller})}

\* What can be wrong with an event, check by check.
Defects ==
    [p : {"ok", "missing", "other"},
     envelope : {"ok", "not_json", "invalid"},
     kind : {"ok", "other"},
     a : {"ok", "missing", "no_value", "no_value_then_ok", "other", "other_then_ok"},
     d : {"ok", "missing", "other"},
     addr : {"ok", "wrong_kind", "short"}]

NoDefect ==
    [p |-> "ok", envelope |-> "ok", kind |-> "ok", a |-> "ok", d |-> "ok", addr |-> "ok"]

\* The well-formed events the defects are put into: a ListingValidateRequest
\* and an accepting OrderResponse of the seller with the newest event id.
WellFormed ==
    {e \in ValidateEvents({Buyer}, {AddrS}) : ~e.content.payload.listing_event}
    \cup {e \in ExistingOrderEvents({MaxIds}, {Seller}, {AddrS}, OrderIds) :
            e.content.message_type = "OrderResponse" /\ e.content.payload.accepted}

\* The event with the defects x.
Malformed(base, x) ==
    LET mt == base.content.message_type
        needs_d == requires_order_id(mt)
        addr == CASE x.addr = "ok" -> base.content.listing_addr
                  [] x.addr = "wrong_kind" -> AddrWrongKind
                  [] x.addr = "short" -> AddrShort
        order_id == IF x.envelope # "invalid" THEN base.content.order_id
                    ELSE IF needs_d THEN None ELSE Some(OtherOrderId)
        p == CASE x.p = "ok" -> <<<<"p", pubkey_to_string(Rhi)>>>>
               [] x.p = "missing" -> << >>
               [] x.p = "other" -> <<<<"p", pubkey_to_string(Buyer)>>>>
        a == CASE x.a = "ok" -> <<<<"a", addr>>>>
               [] x.a = "missing" -> << >>
               [] x.a = "no_value" -> <<<<"a">>>>
               [] x.a = "no_value_then_ok" -> <<<<"a">>, <<"a", addr>>>>
               [] x.a = "other" -> <<<<"a", AddrM>>>>
               [] x.a = "other_then_ok" -> <<<<"a", AddrM>>, <<"a", addr>>>>
        d == CASE x.d = "ok" -> IF needs_d THEN <<<<"d", base.content.order_id[1]>>>> ELSE << >>
               [] x.d = "missing" -> << >>
               [] x.d = "other" -> <<<<"d", OtherOrderId>>>>
    IN [base EXCEPT
            !.kind = IF x.kind = "ok" THEN @
                     ELSE message_type_kind(IF mt = "Cancel" THEN "Receipt" ELSE "Cancel"),
            !.tags = p \o a \o d,
            !.content.json_ok = x.envelope # "not_json",
            !.content.order_id = order_id,
            !.content.listing_addr = addr]

\* Events the dispatcher rejects before any handler: of a kind outside the
\* trade-listing range, without the daemon's p tag, with a kind that is not
\* the message type's.
RejectedEvents ==
    {[base EXCEPT !.kind = 0] : base \in WellFormed}
    \cup {Malformed(base, [NoDefect EXCEPT !.p = "missing"]) : base \in WellFormed}
    \cup {Malformed(base, [NoDefect EXCEPT !.kind = "other"]) : base \in WellFormed}

\* The events the relays deliver.
Events ==
    ValidateEvents({Buyer}, {AddrS, AddrM, AddrWrongKind, AddrShort})
    \cup OrderRequestEvents(EventIds, {Buyer, Mallory}, {AddrS, AddrM, AddrWrongKind},
                            OrderIds, {Buyer, Mallory}, {Seller, Mallory})
    \cup MismatchedOrderRequests(EventIds, OrderIds)
    \cup ExistingOrderEvents(EventIds, {Buyer, Seller, Mallory}, {AddrS}, OrderIds)

\* What the transport can answer to the fetch of the listing event; only a
\* ListingValidateRequest fetches.
FetchFor(event) ==
    IF event.content.message_type = "ListingValidateRequest" THEN FetchOutcomes
    ELSE {"none"}

\* ------------------------------------------------------------------- state

VARIABLES
    state,      \* the TradeListingState behind the mutex
    tasks,      \* the handler tasks the subscriber has spawned: what each awaits
    sent,       \* per (order, inbound event id): calls of send_envelope
    held,       \* per task: the event moved into it, the store it found when it
                \* took the lock, its result and its envelope, the job feedbacks
                \* it sent, the handler steps it has yet to take and what the
                \* transport answered to its fetch
    lock,       \* the owner of the mutex around the store: a task, or 0
    sup         \* the supervisor: where it is and which run of the subscriber
                \* this is

vars == <<state, tasks, sent, held, lock, sup>>

NoTask == [event |-> << >>, at |-> EmptyState, res |-> "-", out |-> None,
           fb |-> 0, todo |-> << >>, fetched |-> "none"]

Init ==
    /\ state = EmptyState
    /\ tasks = [t \in Tasks |-> "idle"]
    /\ sent = [k \in OrderIds \X AllIds |-> 0]
    /\ held = [t \in Tasks |-> NoTask]
    /\ lock = 0
    /\ sup = [pc |-> "loop", run |-> 1]

SilentErrors == {"MissingRecipient", "UnsupportedKind"}

\* NextPc with job feedback for every error.
NextPc_feedback_always(r) ==
    IF r.out # None THEN "send"
    ELSE IF r.res = "Ok" THEN "idle"
    ELSE "feedback"

\* What the task awaits once the handler has released the lock.
NextPc(r) ==
    IF r.out # None THEN "send"
    ELSE IF r.res = "Ok" \/ r.res \in SilentErrors THEN "idle"
    ELSE "feedback"

\* send_envelope is entered for the envelope a handler returns.
Sent(s, event, r) ==
    IF r.out # None /\ r.out[1].order_id # None
    THEN [s EXCEPT ![<<r.out[1].order_id[1], event.id>>] = @ + 1]
    ELSE s

\* The subscriber spawns a task for the event. Everything the task does before
\* it takes the lock reads the event alone, and the handler does not await
\* between taking the lock and releasing it, so the task's run from its spawn
\* to the call of send_envelope is one step.
HandleEvent(t, event, fetched) ==
    /\ tasks[t] = "idle"
    /\ LET r == handle_event(state, event, fetched) IN
       /\ state' = r.st
       /\ tasks' = [tasks EXCEPT ![t] = NextPc(r)]
       /\ sent' = Sent(sent, event, r)
    /\ UNCHANGED <<held, lock, sup>>

\* radroots_nostr_send_event returns: the transport took the event or failed.
\* A failure is the handler's error, reported as job feedback.
SendEnvelope(t, ok) ==
    /\ tasks[t] = "send"
    /\ tasks' = [tasks EXCEPT ![t] = IF ok THEN "idle" ELSE "feedback"]
    /\ UNCHANGED <<state, sent, held, lock, sup>>

\* handle_error: the job-feedback event; a failure to send it is swallowed.
SendFeedback(t) ==
    /\ tasks[t] = "feedback"
    /\ tasks' = [tasks EXCEPT ![t] = "idle"]
    /\ UNCHANGED <<state, sent, held, lock, sup>>

Next ==
    \E t \in Tasks :
        \/ \E event \in Events : \E fetched \in FetchFor(event) :
                HandleEvent(t, event, fetched)
        \/ \E ok \in BOOLEAN : SendEnvelope(t, ok)
        \/ SendFeedback(t)

Spec == Init /\ [][Next]_vars

\* ------------------------------------------------- one order to its end

\* The events about one order on one validated listing, from the buyer, the
\* seller and a third party, with enough event ids to reach Completed and go on.
LifeEvents ==
    ValidateEvents({Buyer}, {AddrS})
    \cup OrderRequestEvents(LifeIds, {Buyer}, {AddrS}, OrderIds, {Buyer}, {Seller})
    \cup ExistingOrderEvents(LifeIds, {Buyer, Seller, Mallory}, {AddrS}, OrderIds)

NextLife ==
    \E t \in Tasks :
        \/ \E event \in LifeEvents : \E fetched \in FetchFor(event) :
                HandleEvent(t, event, fetched)
        \/ \E ok \in BOOLEAN : SendEnvelope(t, ok)
        \/ SendFeedback(t)

SpecLife == Init /\ [][NextLife]_vars

\* --------------------------------------------- tasks that keep their event

\* Whether the order the event names is in the store.
OrderFound(st, event) ==
    /\ event.content.order_id # None
    /\ order_exists(st, event.content.order_id[1])

\* tokio::spawn: the event is moved into a new task, which has not run yet.
Spawn(t, event) ==
    /\ tasks[t] = "idle"
    /\ tasks' = [tasks EXCEPT ![t] = "spawned"]
    /\ held' = [held EXCEPT ![t] = [NoTask EXCEPT !.event = event]]
    /\ UNCHANGED <<state, sent, lock, sup>>

\* The task takes the lock and runs the handler up to the call of send_envelope.
Run(t, fetched) ==
    /\ tasks[t] = "spawned"
    /\ LET r == handle_event(state, held[t].event, fetched) IN
       /\ state' = r.st
       /\ tasks' = [tasks EXCEPT ![t] = IF NextPc(r) = "idle" THEN "done" ELSE NextPc(r)]
       /\ sent' = Sent(sent, held[t].event, r)
       /\ held' = [held EXCEPT ![t] = [@ EXCEPT !.at = state, !.res = r.res, !.out = r.out]]
    /\ UNCHANGED <<lock, sup>>

SendEnvelopeHeld(t, ok) ==
    /\ tasks[t] = "send"
    /\ tasks' = [tasks EXCEPT ![t] = IF ok THEN "done" ELSE "feedback"]
    /\ held' = [held EXCEPT ![t] = [@ EXCEPT !.res = IF ok THEN "Ok" ELSE "Nostr"]]
    /\ UNCHANGED <<state, sent, lock, sup>>

SendFeedbackHeld(t) ==
    /\ tasks[t] = "feedback"
    /\ tasks' = [tasks EXCEPT ![t] = "done"]
    /\ UNCHANGED <<state, sent, held, lock, sup>>

\* The task has returned; its slot is free again.
TaskEnds(t) ==
    /\ tasks[t] = "done"
    /\ tasks' = [tasks EXCEPT ![t] = "idle"]
    /\ held' = [held EXCEPT ![t] = NoTask]
    /\ UNCHANGED <<state, sent, lock, sup>>

ConcEvents ==
    ValidateEvents({Buyer}, {AddrS})
    \cup OrderRequestEvents(ConcIds, {Buyer}, {AddrS, AddrM}, OrderIds,
                            {Buyer, Mallory}, {Seller})
    \cup {e \in ExistingOrderEvents(ConcIds, {Buyer, Seller}, {AddrS}, OrderIds) :
            e.content.message_type \in {"OrderResponse", "Cancel"}}

NextConc ==
    \E t \in Tasks :
        \/ \E event \in ConcEvents : Spawn(t, event)
        \/ tasks[t] = "spawned" /\ \E fetched \in FetchFor(held[t].event) : Run(t, fetched)
        \/ \E ok \in BOOLEAN : SendEnvelopeHeld(t, ok)
        \/ SendFeedbackHeld(t)
        \/ TaskEnds(t)

SpecConc == Init /\ [][NextConc]_vars

\* ------------------------------------- the supervisor runs the loop again

SupEvents ==
    ValidateEvents({Buyer}, {AddrS})
    \cup OrderRequestEvents(ConcIds, {Buyer}, {AddrS}, OrderIds, {Buyer}, {Seller})
    \cup {e \in ExistingOrderEvents(ConcIds, {Buyer, Seller}, {AddrS}, OrderIds) :
            e.content.message_type \in {"OrderResponse", "Cancel"}}

\* The subscriber's loop spawns a task while it runs. A task spawned before the
\* loop ended works on the store of the run that spawned it, which no task of
\* a later run reads; its run is taken at its spawn.
HandleEventInLoop(t, event, fetched) ==
    /\ sup.pc = "loop"
    /\ HandleEvent(t, event, fetched)

\* notifications.recv() returns an error: the loop breaks, the subscriber
\* unsubscribes and returns the error, the supervisor logs it and sleeps the
\* backoff delay.
NotificationsClosed ==
    /\ sup.pc = "loop"
    /\ sup' = [sup EXCEPT !.pc = "backoff"]
    /\ UNCHANGED <<state, tasks, sent, held, lock>>

\* The supervisor's loop comes round: it connects and calls subscriber again,
\* which subscribes and builds its store with TradeListingState::default().
SubscriberStarts ==
    /\ sup.pc = "backoff"
    /\ sup.run < MaxRuns
    /\ sup' = [pc |-> "loop", run |-> sup.run + 1]
    /\ state' = EmptyState
    /\ UNCHANGED <<tasks, sent, held, lock>>

NextSup ==
    \/ \E t \in Tasks :
        \/ \E event \in SupEvents : \E fetched \in FetchFor(event) :
                HandleEventInLoop(t, event, fetched)
        \/ \E ok \in BOOLEAN : SendEnvelope(t, ok)
        \/ SendFeedback(t)
    \/ NotificationsClosed
    \/ SubscriberStarts

SpecSup == Init /\ [][NextSup]_vars

\* ------------------------------------------------ the lock around the store

\* The errors of the checks that read the event alone.
StructuralErrors ==
    {"UnsupportedKind", "MissingRecipient", "Serde", "InvalidEnvelope", "InvalidPayload",
     "TagMismatch", "MissingTag", "InvalidListingAddr", "InvalidOrder"}

\* What the checks ahead of state.lock() answer: they read the event alone, so
\* they answer on every store what they answer on the empty one, where every
\* check behind the lock that could answer InvalidOrder comes after the lookup
\* of the order.
BeforeLock(event) == handle_event(EmptyState, event, "none")

\* The event is rejected, or dropped as the daemon's own, before the handler
\* takes the lock.
FailsBeforeLock(event) ==
    \/ BeforeLock(event).res \in StructuralErrors
    \/ is_trade_listing_dvm_kind(event.kind) /\ is_own_event(event)

\* HandlerSteps with send_envelope called before drop(state).
HandlerSteps_send_locked(event) ==
    IF FailsBeforeLock(event) THEN <<"reply">>
    ELSE IF event.content.message_type = "ListingValidateRequest"
    THEN <<"fetch", "lock", "read", "commit", "drop", "reply">>
    ELSE <<"lock", "read", "commit", "reply", "drop">>

\* HandlerSteps with the guard dropped after the checks and the lock taken
\* again for the commit.
HandlerSteps_relock(event) ==
    IF FailsBeforeLock(event) THEN <<"reply">>
    ELSE IF event.content.message_type = "ListingValidateRequest"
    THEN <<"fetch", "lock", "read", "commit", "drop", "reply">>
    ELSE <<"lock", "read", "drop", "lock", "commit", "drop", "reply">>

\* The steps of a handler task in program order. A ListingValidateRequest
\* fetches the listing event first and takes the lock only to mark a valid
\* listing; every order handler takes the lock, checks and commits without an
\* await, drops the guard (drop(state), or the return of an error) and only
\* then replies: send_envelope, or the job feedback of handle_error.
HandlerSteps(event) ==
    IF FailsBeforeLock(event) THEN <<"reply">>
    ELSE IF event.content.message_type = "ListingValidateRequest"
    THEN <<"fetch", "lock", "read", "commit", "drop", "reply">>
    ELSE <<"lock", "read", "commit", "drop", "reply">>

\* The step a task takes next: the head of what it has yet to do, where the
\* reply is the envelope, the feedback, or nothing.
RECURSIVE Go(_, _)
Go(todo, h) ==
    IF todo = << >> THEN [pc |-> "done", todo |-> << >>]
    ELSE IF Head(todo) # "reply" THEN [pc |-> Head(todo), todo |-> Tail(todo)]
    ELSE IF NextPc(h) = "idle" THEN Go(Tail(todo), h)
    ELSE [pc |-> NextPc(h), todo |-> Tail(todo)]

\* The task's record and position after a step that left the record h.
Proceed(t, h) ==
    LET g == Go(h.todo, h) IN
    /\ tasks' = [tasks EXCEPT ![t] = g.pc]
    /\ held' = [held EXCEPT ![t] = [h EXCEPT !.todo = g.todo]]

RequestId == 1
ResponseId == 2
CancelId == 3

\* The events of the runs with the lock: each message type has its event id.
LockEvents ==
    ValidateEvents({Buyer}, {AddrS})
    \cup OrderRequestEvents({RequestId}, {Buyer}, {AddrS}, OrderIds, {Buyer}, {Seller})
    \cup MismatchedOrderRequests({RequestId}, OrderIds)
    \cup {e \in ExistingOrderEvents({ResponseId}, {Seller}, {AddrS}, OrderIds) :
            e.content.message_type = "OrderResponse"}
    \cup {e \in ExistingOrderEvents({CancelId}, {Buyer, Seller}, {AddrS}, OrderIds) :
            e.content.message_type = "Cancel"}
    \cup RejectedEvents

\* tokio::spawn, and the task's run up to its first await: the checks ahead of
\* the lock.
SpawnTask(t, event) ==
    /\ tasks[t] = "idle"
    /\ LET r == BeforeLock(event)
           h == [NoTask EXCEPT !.event = event, !.todo = HandlerSteps(event),
                               !.res = IF FailsBeforeLock(event) THEN r.res ELSE "-"]
       IN Proceed(t, h)
    /\ UNCHANGED <<state, sent, lock, sup>>

\* The fetch of the listing event returns. Anything but a valid listing is
\* answered at once, without the lock.
FetchListing(t, fetched) ==
    /\ tasks[t] = "fetch"
    /\ LET r == handle_event(state, held[t].event, fetched)
           h == IF fetched = "valid"
                THEN [held[t] EXCEPT !.fetched = fetched]
                ELSE [held[t] EXCEPT !.fetched = fetched, !.res = r.res, !.out = r.out,
                                     !.todo = <<"reply">>]
       IN Proceed(t, h)
    /\ UNCHANGED <<state, sent, lock, sup>>

\* state.lock().await returns once no task holds the guard.
LockState(t) ==
    /\ tasks[t] = "lock"
    /\ lock = 0
    /\ lock' = t
    /\ Proceed(t, held[t])
    /\ UNCHANGED <<state, sent, sup>>

\* The handler's checks on the store behind the guard.
ReadState(t) ==
    /\ tasks[t] = "read"
    /\ LET r == handle_event(state, held[t].event, held[t].fetched)
       IN Proceed(t, [held[t] EXCEPT !.at = state, !.res = r.res, !.out = r.out])
    /\ UNCHANGED <<state, sent, lock, sup>>

\* The handler's writes, as decided by its checks.
CommitState(t) ==
    /\ tasks[t] = "commit"
    /\ state' = handle_event(held[t].at, held[t].event, held[t].fetched).st
    /\ Proceed(t, held[t])
    /\ UNCHANGED <<sent, lock, sup>>

\* drop(state), or the guard going out of scope.
DropGuard(t) ==
    /\ tasks[t] = "drop"
    /\ lock' = IF lock = t THEN 0 ELSE lock
    /\ Proceed(t, held[t])
    /\ UNCHANGED <<state, sent, sup>>

\* SendEnvelopeTask that undoes the handler's commit when the transport fails:
\* the store goes back to the one the handler found.
SendEnvelopeTask_rollback(t, ok) ==
    /\ tasks[t] = "send"
    /\ sent' = Sent(sent, held[t].event, held[t])
    /\ state' = IF ok THEN state ELSE held[t].at
    /\ IF ok
       THEN Proceed(t, [held[t] EXCEPT !.res = "Ok"])
       ELSE /\ tasks' = [tasks EXCEPT ![t] = "feedback"]
            /\ held' = [held EXCEPT ![t] = [@ EXCEPT !.res = "Nostr"]]
    /\ UNCHANGED <<lock, sup>>

\* send_envelope awaits the transport; a failure is the handler's error.
SendEnvelopeTask(t, ok) ==
    /\ tasks[t] = "send"
    /\ sent' = Sent(sent, held[t].event, held[t])
    /\ IF ok
       THEN Proceed(t, [held[t] EXCEPT !.res = "Ok"])
       ELSE /\ tasks' = [tasks EXCEPT ![t] = "feedback"]
            /\ held' = [held EXCEPT ![t] = [@ EXCEPT !.res = "Nostr"]]
    /\ UNCHANGED <<state, lock, sup>>

\* handle_error awaits the transport with the job feedback; the subscriber
\* logs a failure and the task ends either way.
SendFeedbackTask(t, ok) ==
    /\ tasks[t] = "feedback"
    /\ Proceed(t, [held[t] EXCEPT !.fb = @ + 1])
    /\ UNCHANGED <<state, sent, lock, sup>>

NextLock ==
    \E t \in Tasks :
        \/ \E event \in LockEvents : SpawnTask(t, event)
        \/ \E fetched \in FetchOutcomes : FetchListing(t, fetched)
        \/ LockState(t)
        \/ ReadState(t)
        \/ CommitState(t)
        \/ DropGuard(t)
        \/ \E ok \in BOOLEAN : SendEnvelopeTask(t, ok)
        \/ \E ok \in BOOLEAN : SendFeedbackTask(t, ok)
        \/ TaskEnds(t)

SpecLock == Init /\ [][NextLock]_vars

\* ------------------------------------------------------------- two orders

TwoOrderIds == {<<"o1">>, <<"o2">>}

\* The events of the runs with two orders, on two listings.
FrameEvents ==
    ValidateEvents({Buyer}, {AddrS, AddrM})
    \cup OrderRequestEvents(ConcIds, {Buyer}, {AddrS, AddrM}, TwoOrderIds,
                            {Buyer}, {Seller, Mallory})
    \cup {e \in ExistingOrderEvents(ConcIds, {Buyer, Seller, Mallory}, {AddrS},
                                    TwoOrderIds) :
            e.content.message_type \in {"OrderResponse", "OrderRevision", "Question",
                                        "Cancel"}}

\* A task handles an event up to the call of send_envelope, as HandleEvent.
HandleFrameEvent(t, event, fetched) ==
    /\ tasks[t] = "idle"
    /\ LET r == handle_event(state, event, fetched) IN
       /\ state' = r.st
       /\ tasks' = [tasks EXCEPT ![t] = NextPc(r)]
    /\ UNCHANGED <<sent, held, lock, sup>>

NextFrame ==
    \E t \in Tasks :
        \/ \E event \in FrameEvents : \E fetched \in FetchFor(event) :
                HandleFrameEvent(t, event, fetched)
        \/ \E ok \in BOOLEAN : SendEnvelope(t, ok)
        \/ SendFeedback(t)

SpecFrame == Init /\ [][NextFrame]_vars

\* ------------------------------------------- the stop signal and the backoff

\* How many times stop() is called on the handle and its clones.
MaxStopCalls == 2

\* The supervisor task at the top of its loop, before any stop() call: the
\* watch channel holds false, the sender is in the handle, the backoff is new.
InitStop ==
    /\ state = EmptyState
    /\ tasks = [t \in Tasks |-> "idle"]
    /\ sent = [k \in OrderIds \X AllIds |-> 0]
    /\ held = [t \in Tasks |-> NoTask]
    /\ lock = 0
    /\ sup = [pc |-> "top", run |-> 0, stop |-> FALSE, sender |-> TRUE, calls |-> 0,
              res |-> "-", why |-> "-", backoff |-> 0, subscribed |-> FALSE]

\* stop_rx.changed() as an arm of a select, never ready.
changed_never(stop) == FALSE

\* stop_rx.changed() as an arm of a select: ready once stop() has sent true,
\* which no receiver of the supervisor or the subscriber has seen before.
changed(stop) == stop

\* What subscriber returns after its loop, Ok whatever ended the loop.
subscriber_result_ok(why) == "Ok"

\* What subscriber returns after its loop and the unsubscribe.
subscriber_result(why) ==
    IF why = "stop" THEN "Ok"
    ELSE IF why = "closed" THEN "Err"
    ELSE "Ok"

\* The backoff after a return of subscriber, reset whatever it returned.
backoff_after_always_reset(res, attempts) == 0

\* The backoff after a return of subscriber: backoff.reset() unless it failed.
backoff_after(res, attempts) == IF res = "Err" THEN attempts ELSE 0

\* Where the supervisor goes after a return of subscriber, giving up after an
\* error.
after_return_gives_up(stop, failed) ==
    IF stop \/ failed THEN "exit" ELSE "top"

\* Where the supervisor goes after a return of subscriber: out of the loop if
\* stop is requested, to the backoff delay after an error, else round the loop.
after_return(stop, failed) ==
    IF stop THEN "exit"
    ELSE IF failed THEN "delay"
    ELSE "top"

\* stop() on the handle or a clone: the first call takes the sender out of the
\* shared Option and sends true, a later call finds None.
StopCalled ==
    /\ sup.calls < MaxStopCalls
    /\ sup' = [sup EXCEPT !.calls = @ + 1,
                          !.stop = IF sup.sender THEN TRUE ELSE @,
                          !.sender = FALSE]
    /\ UNCHANGED <<state, tasks, sent, held, lock>>

\* The head of the supervisor's loop: if *stop_rx.borrow() break, else
\* client.connect().
TopOfLoop ==
    /\ sup.pc = "top"
    /\ sup' = [sup EXCEPT !.pc = IF sup.stop THEN "exit" ELSE "connect"]
    /\ UNCHANGED <<state, tasks, sent, held, lock>>

\* The select after connect: wait_for_connection returns, connected or after
\* its five seconds, and the supervisor calls subscriber.
ConnectionWaitOver ==
    /\ sup.pc = "connect"
    /\ sup.run < MaxRuns
    /\ sup' = [sup EXCEPT !.pc = "subscriber", !.run = @ + 1, !.res = "-", !.why = "-"]
    /\ UNCHANGED <<state, tasks, sent, held, lock>>

\* The select after connect: the stop arm.
StopWhileConnecting ==
    /\ sup.pc = "connect"
    /\ changed(sup.stop)
    /\ sup' = [sup EXCEPT !.pc = "exit"]
    /\ UNCHANGED <<state, tasks, sent, held, lock>>

\* subscriber up to its loop: it returns Ok if stop is already requested;
\* else it subscribes, which can fail, and builds its store.
SubscriberStartsLoop(ok) ==
    /\ sup.pc = "subscriber"
    /\ IF sup.stop
       THEN /\ sup' = [sup EXCEPT !.pc = "returned", !.res = "Ok"]
            /\ UNCHANGED state
       ELSE IF ok
       THEN /\ sup' = [sup EXCEPT !.pc = "loop", !.subscribed = TRUE]
            /\ state' = EmptyState
       ELSE /\ sup' = [sup EXCEPT !.pc = "returned", !.res = "Err"]
            /\ UNCHANGED state
    /\ UNCHANGED <<tasks, sent, held, lock>>

\* The loop's select: the stop arm.
StopInLoop ==
    /\ sup.pc = "loop"
    /\ changed(sup.stop)
    /\ sup' = [sup EXCEPT !.pc = "unsubscribe", !.why = "stop"]
    /\ UNCHANGED <<state, tasks, sent, held, lock>>

\* The loop's select: notifications.recv() returns an error.
NotificationsFail ==
    /\ sup.pc = "loop"
    /\ sup' = [sup EXCEPT !.pc = "unsubscribe", !.why = "closed"]
    /\ UNCHANGED <<state, tasks, sent, held, lock>>

\* After the loop: client.unsubscribe, then the return of the outcome.
Unsubscribe ==
    /\ sup.pc = "unsubscribe"
    /\ sup' = [sup EXCEPT !.pc = "returned", !.subscribed = FALSE,
                          !.res = subscriber_result(sup.why)]
    /\ UNCHANGED <<state, tasks, sent, held, lock>>

\* The supervisor takes the result: it logs an error, or resets the backoff;
\* then it breaks if stop is requested, computes backoff.next_delay() and
\* sleeps after an error, or goes round the loop.
SubscriberReturned ==
    /\ sup.pc = "returned"
    /\ LET failed == sup.res = "Err"
           reset == backoff_after(sup.res, sup.backoff)
           next == after_return(sup.stop, failed)
       IN sup' = [sup EXCEPT !.pc = next,
                             !.backoff = IF next = "delay" THEN reset + 1 ELSE reset]
    /\ UNCHANGED <<state, tasks, sent, held, lock>>

\* The select on the backoff delay: the sleep is over.
DelayOver ==
    /\ sup.pc = "delay"
    /\ sup' = [sup EXCEPT !.pc = "top"]
    /\ UNCHANGED <<state, tasks, sent, held, lock>>

\* The select on the backoff delay: the stop arm.
StopDuringDelay ==
    /\ sup.pc = "delay"
    /\ changed(sup.stop)
    /\ sup' = [sup EXCEPT !.pc = "exit"]
    /\ UNCHANGED <<state, tasks, sent, held, lock>>

\* The steps of the supervisor task, the subscriber it calls included, that
\* wait for nothing but transport calls and timers.
SupervisorStep ==
    \/ TopOfLoop
    \/ ConnectionWaitOver
    \/ StopWhileConnecting
    \/ \E ok \in BOOLEAN : SubscriberStartsLoop(ok)
    \/ StopInLoop
    \/ Unsubscribe
    \/ SubscriberReturned
    \/ DelayOver
    \/ StopDuringDelay

NextStop ==
    \/ SupervisorStep
    \/ NotificationsFail
    \/ StopCalled
    \/ \E t \in Tasks :
        \/ \E event \in ValidateEvents({Buyer}, {AddrS})
                        \cup OrderRequestEvents({1}, {Buyer}, {AddrS}, OrderIds,
                                                {Buyer}, {Seller}) :
            \E fetched \in FetchFor(event) :
                HandleEventInLoop(t, event, fetched)
        \/ \E ok \in BOOLEAN : SendEnvelope(t, ok)
        \/ SendFeedback(t)

SpecStop == InitStop /\ [][NextStop]_vars

\* Transport calls and timers return, and a select with a ready arm takes one.
SpecStopFair == SpecStop /\ WF_vars(SupervisorStep)

\* ------------------------------------------------ ensure_transition, applied

\* What ensure_transition returns: Ok(()), or the InvalidTransition error with
\* the two statuses it was called with.
ensure_transition_result(from, to) ==
    IF ensure_transition(from, to)
    THEN [ok |-> TRUE]
    ELSE [ok |-> FALSE, err |-> "InvalidTransition", from |-> from, to |-> to]

\* A call of ensure_transition about to be made, for every pair of statuses.
InitTransition ==
    /\ state = EmptyState
    /\ tasks = [t \in Tasks |-> "idle"]
    /\ sent = [k \in OrderIds \X AllIds |-> 0]
    /\ held = [t \in Tasks |-> NoTask]
    /\ lock = 0
    /\ \E from \in TradeOrderStatus : \E to \in TradeOrderStatus :
            sup = [pc |-> "call", from |-> from, to |-> to, res |-> [ok |-> TRUE]]

\* The call returns.
EnsureTransition ==
    /\ sup.pc = "call"
    /\ sup' = [sup EXCEPT !.pc = "returned",
                          !.res = ensure_transition_result(sup.from, sup.to)]
    /\ UNCHANGED <<state, tasks, sent, held, lock>>

SpecTransition == InitTransition /\ [][EnsureTransition]_vars

\* ------------------------------------------------- the store's operations

\* An empty store; sup keeps the value the last mark_event_seen returned and,
\* as history, the pairs (order, event id) recorded at the order's insert or
\* marked by a call made while the order was in the store.
InitStore ==
    /\ state = EmptyState
    /\ tasks = [t \in Tasks |-> "idle"]
    /\ sent = [k \in OrderIds \X AllIds |-> 0]
    /\ held = [t \in Tasks |-> NoTask]
    /\ lock = 0
    /\ sup = [pc |-> "store", marked |-> {}, ret |-> FALSE]

\* state.mark_listing_validated(listing_addr)
MarkListingValidated(listing_addr) ==
    /\ sup.pc = "store"
    /\ state' = mark_listing_validated(state, listing_addr)
    /\ UNCHANGED <<tasks, sent, held, lock, sup>>

\* state.insert_order(order), of an order with the event ids in seen.
InsertOrder(order_id, seller, seen) ==
    /\ sup.pc = "store"
    /\ state' = insert_order(state, [order_id |-> order_id,
                                     listing_addr |-> <<"30402", ":", seller, ":", "x">>,
                                     buyer_pubkey |-> <<Buyer>>,
                                     seller_pubkey |-> <<seller>>,
                                     status |-> "Requested",
                                     seen_event_ids |-> seen])
    /\ sup' = [sup EXCEPT !.marked = {p \in @ : p[1] # order_id}
                                        \cup {<<order_id, e>> : e \in seen}]
    /\ UNCHANGED <<tasks, sent, held, lock>>

\* state.mark_event_seen(order_id, event_id)
MarkEventSeen(order_id, event_id) ==
    /\ sup.pc = "store"
    /\ LET r == mark_event_seen(state, order_id, event_id) IN
       /\ state' = r.st
       /\ sup' = [sup EXCEPT !.ret = r.ret,
                             !.marked = IF order_exists(state, order_id)
                                        THEN @ \cup {<<order_id, event_id>>}
                                        ELSE @]
    /\ UNCHANGED <<tasks, sent, held, lock>>

NextStore ==
    \/ \E listing_addr \in {AddrS, AddrM} : MarkListingValidated(listing_addr)
    \/ \E order_id \in TwoOrderIds : \E seller \in {Seller, Mallory} :
        \E seen \in {{}} \cup {{e} : e \in EventIds} :
            InsertOrder(order_id, seller, seen)
    \/ \E order_id \in TwoOrderIds : \E event_id \in EventIds :
            MarkEventSeen(order_id, event_id)

SpecStore == InitStore /\ [][NextStore]_vars

\* ------------------------------------------------- encrypted-tags resolution

\* A tag content that parses as a public key.
IsPublicKey(content) == \E k \in PublicKeys : content = pubkey_to_string(k)

\* nostr_tags_resolve that decrypts for whoever the event names.
nostr_tags_resolve_any_recipient(event, key) ==
    IF \E i \in 1..Len(event.tags) : event.tags[i][1] = "encrypted"
    THEN IF event.content.json_ok \/ event.content.cipher_to # key
         THEN [res |-> "DecryptionError", tags |-> << >>, decrypted |-> FALSE]
         ELSE IF ~event.content.clear_ok
         THEN [res |-> "Serde", tags |-> << >>, decrypted |-> TRUE]
         ELSE [res |-> "Ok", tags |-> event.content.clear, decrypted |-> TRUE]
    ELSE [res |-> "Ok", tags |-> event.tags, decrypted |-> FALSE]

\* nostr_tags_resolve: the tags handed to handle_event, or the error. With the
\* marker the recipient is the first p tag whose content parses as a public
\* key; nip04::decrypt succeeds on a ciphertext made for this key's secret,
\* and the cleartext must parse as a list of tags.
nostr_tags_resolve(event, key) ==
    IF \E i \in 1..Len(event.tags) : event.tags[i][1] = "encrypted"
    THEN LET ps == {i \in 1..Len(event.tags) :
                        /\ Len(event.tags[i]) >= 2
                        /\ event.tags[i][1] = "p"
                        /\ IsPublicKey(event.tags[i][2])}
         IN IF ps = {}
            THEN [res |-> "MissingPTag", tags |-> << >>, decrypted |-> FALSE]
            ELSE LET first == CHOOSE i \in ps : \A j \in ps : i <= j
                     recipient == event.tags[first][2]
                 IN IF recipient # pubkey_to_string(key)
                    THEN [res |-> "NotRecipient", tags |-> << >>, decrypted |-> FALSE]
                    ELSE IF event.content.json_ok \/ event.content.cipher_to # key
                    THEN [res |-> "DecryptionError", tags |-> << >>, decrypted |-> FALSE]
                    ELSE IF ~event.content.clear_ok
                    THEN [res |-> "Serde", tags |-> << >>, decrypted |-> TRUE]
                    ELSE [res |-> "Ok", tags |-> event.content.clear, decrypted |-> TRUE]
    ELSE [res |-> "Ok", tags |-> event.tags, decrypted |-> FALSE]

\* The body of a spawned task up to its first await after the handler: an
\* event whose tags do not resolve is dropped with a warning, any other goes to
\* handle_event with the resolved tags.
spawned_task(st, event, fetched) ==
    LET resolved == nostr_tags_resolve(event, Rhi) IN
    IF resolved.res # "Ok"
    THEN [resolved |-> resolved, handled |-> FALSE, r |-> Result(st, resolved.res, None),
          pc |-> "idle"]
    ELSE LET r == handle_event(st, [event EXCEPT !.tags = resolved.tags], fetched)
         IN [resolved |-> resolved, handled |-> TRUE, r |-> r, pc |-> NextPc(r)]

\* Events with the encrypted marker: the content is a ciphertext made for one
\* key, of a cleartext that is the tag list of a well-formed event or is not a
\* tag list. The p tags before the marker: none, one without content or whose
\* content is no key, the daemon's key, another key, and two of them.
EncryptedEvents ==
    {[id |-> base.id, pubkey |-> base.pubkey, kind |-> base.kind,
      tags |-> p \o <<<<"encrypted">>>>,
      content |-> [json_ok |-> FALSE, cipher_to |-> to, clear_ok |-> ok,
                   clear |-> base.tags]] :
        base \in WellFormed,
        p \in {<< >>,
               <<<<"p">>>>,
               <<<<"p", <<"zz">>>>>>,
               <<<<"p", pubkey_to_string(Rhi)>>>>,
               <<<<"p", pubkey_to_string(Buyer)>>>>,
               <<<<"p", <<"zz">>>>, <<"p", pubkey_to_string(Rhi)>>>>,
               <<<<"p", pubkey_to_string(Buyer)>>, <<"p", pubkey_to_string(Rhi)>>>>},
        to \in {Rhi, Buyer}, ok \in BOOLEAN}

\* A task resolves the tags of its event and handles it, one step as
\* HandleEvent.
ResolveAndHandle(t, event, fetched) ==
    /\ tasks[t] = "idle"
    /\ LET k == spawned_task(state, event, fetched) IN
       /\ state' = k.r.st
       /\ tasks' = [tasks EXCEPT ![t] = k.pc]
       /\ sent' = Sent(sent, event, k.r)
    /\ UNCHANGED <<held, lock, sup>>

NextResolve ==
    \E t \in Tasks :
        \/ \E event \in SupEvents \cup ValidateEvents({Buyer}, {AddrM}) :
            \E fetched \in FetchFor(event) :
                ResolveAndHandle(t, event, fetched)
        \/ \E event \in EncryptedEvents : ResolveAndHandle(t, event, "none")
        \/ \E ok \in BOOLEAN : SendEnvelope(t, ok)
        \/ SendFeedback(t)

SpecResolve == Init /\ [][NextResolve]_vars

\* ------------------------------------------------ the listing event, fetched

\* How many events the transport returns to one fetch by address.
MaxFetched == 2

\* The events a relay can hold: of the listing kind or another, of either
\* seller, under either identifier, of two ages, and which the validator
\* accepts or not.
StoredEvents ==
    [kind : {ListingKind, 30023}, pubkey : {Seller, Mallory}, d : {"x", "y"},
     created_at : 1..2, valid : BOOLEAN]

\* What fetch_events returns to the filter of fetch_listing_by_addr: events of
\* one author and identifier, in any order, repeated or not.
FetchedLists ==
    UNION {[1..n -> {e \in StoredEvents : e.pubkey = Seller /\ e.d = "x"}] : n \in 0..MaxFetched}

\* The loop of fetch_listing_by_addr from the i-th event on, with latest as
\* it stands: an event of another kind is skipped, an event replaces latest
\* only if it is newer.
RECURSIVE LatestFrom(_, _, _, _)
LatestFrom(events, kind, i, latest) ==
    IF i > Len(events) THEN latest
    ELSE IF events[i].kind # kind THEN LatestFrom(events, kind, i + 1, latest)
    ELSE IF latest # None /\ events[i].created_at <= latest[1].created_at
    THEN LatestFrom(events, kind, i + 1, latest)
    ELSE LatestFrom(events, kind, i + 1, Some(events[i]))

\* fetch_listing_by_addr that keeps the last event of the kind, whatever its
\* age.
fetch_listing_by_addr_last(listing_addr, answer) ==
    LET addr == TradeListingAddress_parse(listing_addr) IN
    IF ~addr.ok \/ ~IsPublicKey(addr.seller_pubkey) THEN [res |-> "InvalidListingAddr"]
    ELSE IF answer.res # "Ok" THEN [res |-> "Transport"]
    ELSE LET of_kind == {i \in 1..Len(answer.events) : answer.events[i].kind = addr.kind} IN
         [res |-> "Ok",
          event |-> IF of_kind = {} THEN None
                    ELSE Some(answer.events[CHOOSE i \in of_kind : \A j \in of_kind : j <= i])]

\* fetch_listing_by_addr: the address is parsed again and its seller segment
\* parsed as a public key; answer is what fetch_events returns, an error or a
\* list of events.
fetch_listing_by_addr(listing_addr, answer) ==
    LET addr == TradeListingAddress_parse(listing_addr) IN
    IF ~addr.ok \/ ~IsPublicKey(addr.seller_pubkey) THEN [res |-> "InvalidListingAddr"]
    ELSE IF answer.res # "Ok" THEN [res |-> "Transport"]
    ELSE [res |-> "Ok", event |-> LatestFrom(answer.events, addr.kind, 1, None)]

\* The listing event of a ListingValidateRequest with a check that the event
\* fetched for a pointer is the one the address names.
listing_event_outcome_verified(payload, listing_addr, answer) ==
    IF payload.listing_event
    THEN IF answer.res = "EventNotFound" THEN "not_found"
         ELSE IF answer.res # "Ok" THEN "failed"
         ELSE LET addr == TradeListingAddress_parse(listing_addr) IN
              IF answer.event.kind # addr.kind
                 \/ pubkey_to_string(answer.event.pubkey) # addr.seller_pubkey
                 \/ <<answer.event.d>> # addr.listing_id
              THEN "not_found"
              ELSE IF answer.event.valid THEN "valid" ELSE "invalid"
    ELSE LET fetched == fetch_listing_by_addr(listing_addr, answer) IN
         IF fetched.res # "Ok" THEN "failed"
         ELSE IF fetched.event = None THEN "not_found"
         ELSE IF fetched.event[1].valid THEN "valid" ELSE "invalid"

\* handle_listing_validate_request up to the validator's verdict: the event
\* fetched by the pointer's id if the payload has a pointer, by the address
\* otherwise, and validate_listing_event on it. answer is what the transport
\* returns: EventNotFound, another error or the event for a fetch by id, an
\* error or a list of events for a fetch by address.
listing_event_outcome(payload, listing_addr, answer) ==
    IF payload.listing_event
    THEN IF answer.res = "EventNotFound" THEN "not_found"
         ELSE IF answer.res # "Ok" THEN "failed"
         ELSE IF answer.event.valid THEN "valid" ELSE "invalid"
    ELSE LET fetched == fetch_listing_by_addr(listing_addr, answer) IN
         IF fetched.res # "Ok" THEN "failed"
         ELSE IF fetched.event = None THEN "not_found"
         ELSE IF fetched.event[1].valid THEN "valid" ELSE "invalid"

\* A listing address whose seller segment is no public key.
AddrNoKey == <<"30402", ":", "zz", ":", "x">>

\* What the transport can return to the fetch a ListingValidateRequest makes.
AnswersFor(event) ==
    IF event.content.payload.listing_event
    THEN {[res |-> "Transport"], [res |-> "EventNotFound"]}
         \cup {[res |-> "Ok", event |-> e] : e \in StoredEvents}
    ELSE {[res |-> "Transport"]} \cup {[res |-> "Ok", events |-> l] : l \in FetchedLists}

\* A task handles a ListingValidateRequest: the listing event is fetched and
\* validated, the rest is HandleEvent.
HandleValidateRequest(t, event, answer) ==
    /\ tasks[t] = "idle"
    /\ LET fetched == listing_event_outcome(event.content.payload,
                                            event.content.listing_addr, answer)
           r == handle_event(state, event, fetched)
       IN /\ state' = r.st
          /\ tasks' = [tasks EXCEPT ![t] = NextPc(r)]
    /\ UNCHANGED <<sent, held, lock, sup>>

NextListing ==
    \E t \in Tasks :
        \/ \E event \in ValidateEvents({Buyer}, {AddrS, AddrM, AddrNoKey}) :
            \E answer \in AnswersFor(event) :
                HandleValidateRequest(t, event, answer)
        \/ \E event \in OrderRequestEvents(ConcIds, {Buyer}, {AddrS, AddrM}, OrderIds,
                                           {Buyer}, {Seller, Mallory}) :
                HandleEvent(t, event, "none")
        \/ \E ok \in BOOLEAN : SendEnvelope(t, ok)
        \/ SendFeedback(t)

SpecListing == Init /\ [][NextListing]_vars

\* ------------------------------------------------ the statuses of one order

\* The events of the order's history: everything its buyer and its seller can
\* send about it with a payload that names it.
TraceEvents ==
    ValidateEvents({Buyer}, {AddrS})
    \cup OrderRequestEvents(LifeIds, {Buyer}, {AddrS}, OrderIds, {Buyer}, {Seller})
    \cup {e \in ExistingOrderEvents(LifeIds, {Buyer, Seller}, {AddrS}, OrderIds) :
            e.content.payload.order_id \in {None, e.content.order_id}}

\* The statuses the order has had, oldest first, each with the message type
\* and the author of the event that committed it.
Committed(path, st, event, r) ==
    IF event.content.order_id = None THEN path
    ELSE LET o == event.content.order_id[1] IN
         IF ~order_exists(r.st, o) THEN path
         ELSE IF order_exists(st, o) /\ r.st.orders[o].status = st.orders[o].status
         THEN path
         ELSE Append(path, [status |-> r.st.orders[o].status,
                            by |-> event.content.message_type,
                            author |-> pubkey_to_string(event.pubkey)])

InitTrace ==
    /\ state = EmptyState
    /\ tasks = [t \in Tasks |-> "idle"]
    /\ sent = [k \in OrderIds \X AllIds |-> 0]
    /\ held = [t \in Tasks |-> NoTask]
    /\ lock = 0
    /\ sup = [path |-> << >>]

\* Event ids are opaque: the events are numbered in the order in which the
\* order first sees them, so the next event has a seen id or the first unseen
\* one.
FreshId ==
    1 + Cardinality(UNION {state.orders[o].seen_event_ids : o \in DOMAIN state.orders})

\* A task handles an event, and the status it commits is written down.
HandleEventTraced(t, event, fetched) ==
    /\ tasks[t] = "idle"
    /\ event.id <= FreshId
    /\ LET r == handle_event(state, event, fetched) IN
       /\ state' = r.st
       /\ tasks' = [tasks EXCEPT ![t] = NextPc(r)]
       /\ sent' = Sent(sent, event, r)
       /\ sup' = [path |-> Committed(sup.path, state, event, r)]
    /\ UNCHANGED <<held, lock>>

NextTrace ==
    \E t \in Tasks :
        \/ \E event \in TraceEvents : \E fetched \in FetchFor(event) :
                HandleEventTraced(t, event, fetched)
        \/ \E ok \in BOOLEAN : SendEnvelope(t, ok)
        \/ SendFeedback(t)

SpecTrace == InitTrace /\ [][NextTrace]_vars

\* ------------------------------------------------ the job-request pipeline

\* How many events the relay keeps, and how many of them others publish
\* before the daemon is asked for its results.
MaxRelay == 4
MaxPublished == 2

\* The result kinds the stage handlers look for.
KIND_TRADE_LISTING_ORDER_RES == 6301
KIND_TRADE_LISTING_ACCEPT_RES == 6302
KIND_TRADE_LISTING_PAYMENT_RES == 6305
KIND_TRADE_LISTING_FULFILL_RES == 6306

TAG_E_ROOT == "e_root"

\* The ids of the events on the relay: an event's id is its place there.
RelayIds == 1..MaxRelay

\* The tags of an event another party publishes: none, a root, or a root tag
\* without a value ahead of one with a value.
ChainTagLists ==
    {<< >>} \cup {<<<<TAG_E_ROOT, id>>>> : id \in 1..2}
            \cup {<<<<TAG_E_ROOT>>, <<TAG_E_ROOT, 1>>>>}

\* What is published apart from the results of the four handlers: listings of
\* the daemon's key and of another, and order results and payment results
\* with any of the tag lists, signed by the daemon (its order and payment
\* handlers send them) or by another key.
PublishedEvents ==
    {[kind |-> ListingKind, pubkey |-> pk, tags |-> << >>] : pk \in {Rhi, Mallory}}
    \cup [kind : {KIND_TRADE_LISTING_ORDER_RES, KIND_TRADE_LISTING_PAYMENT_RES},
          pubkey : {Rhi, Mallory}, tags : ChainTagLists]

\* The transport while a handler runs: the one event it fails to fetch, if
\* any, and whether it takes the result.
Transports == [lost : 0..2, send : BOOLEAN]

\* The job requests of a stage: the input parses or not, and names the event
\* of the previous stage and, for accept, the listing event.
JobRequests(stage) ==
    [stage : {stage}, kind : {IF stage = "accept" THEN 5302
                              ELSE IF stage = "conveyance" THEN 5303
                              ELSE IF stage = "fulfillment" THEN 5306 ELSE 5307},
     parses : BOOLEAN, prev : RelayIds,
     listing_event_id : IF stage = "accept" THEN 1..2 ELSE {1}]

\* nostr_fetch_event_by_id: the first event the relay returns for the id, or
\* an error when the fetch fails or returns nothing.
nostr_fetch_event_by_id(relay, net, id) ==
    IF id \in 1..Len(relay) /\ net.lost # id THEN Some(relay[id]) ELSE None

\* find_map over the tags: the value of the first tag with the key, None if
\* there is no such tag or the first one has no value.
FirstTagValue(tags, key) ==
    LET with_key == {i \in 1..Len(tags) : Len(tags[i]) >= 1 /\ tags[i][1] = key} IN
    IF with_key = {} THEN None
    ELSE LET i == CHOOSE i \in with_key : \A j \in with_key : i <= j IN
         IF Len(tags[i]) >= 2 THEN Some(tags[i][2]) ELSE None

\* result_kind_for_request_kind(kind).unwrap_or(kind + 1000)
result_kind(request) == request.kind + 1000

\* push_trade_listing_chain_tags: the root of the chain and the event of the
\* previous stage. The d tag a handler copies is read by no check and is left
\* out.
ChainTags(e_root, prev) == <<<<TAG_E_ROOT, e_root>>, <<"e_prev", prev>>>>

\* The end of every stage handler: the result event is built and sent.
SendResult(keys, request, e_root, net) ==
    IF net.send
    THEN [res |-> "Ok",
          out |-> Some([kind |-> result_kind(request), pubkey |-> keys,
                        tags |-> ChainTags(e_root, request.prev)])]
    ELSE [res |-> "ResponseSend", out |-> None]

Failed(err) == [res |-> err, out |-> None]

handle_job_request_trade_accept(relay, keys, request, net) ==
    IF ~request.parses THEN Failed("ParseRequest")
    ELSE LET order_res_evt == nostr_fetch_event_by_id(relay, net, request.prev)
             listing_evt == nostr_fetch_event_by_id(relay, net, request.listing_event_id)
         IN
    IF order_res_evt = None THEN Failed("FetchReference")
    ELSE IF listing_evt = None THEN Failed("FetchReference")
    ELSE IF listing_evt[1].pubkey # keys THEN Failed("Unauthorized")
    ELSE IF order_res_evt[1].kind # KIND_TRADE_LISTING_ORDER_RES
    THEN Failed("InvalidOrderResult")
    ELSE IF ~\E i \in 1..Len(order_res_evt[1].tags) :
                order_res_evt[1].tags[i] = <<TAG_E_ROOT, request.listing_event_id>>
    THEN Failed("InvalidOrderResult")
    ELSE LET e_root == FirstTagValue(order_res_evt[1].tags, TAG_E_ROOT) IN
         SendResult(keys, request,
                    IF e_root = None THEN request.listing_event_id ELSE e_root[1], net)

\* handle_job_request_trade_conveyance that does not look at the kind of the
\* event it fetched.
handle_job_request_trade_conveyance_any_kind(relay, keys, request, net) ==
    IF ~request.parses THEN Failed("ParseRequest")
    ELSE LET accept_evt == nostr_fetch_event_by_id(relay, net, request.prev) IN
    IF accept_evt = None THEN Failed("FetchReference")
    ELSE LET e_root == FirstTagValue(accept_evt[1].tags, TAG_E_ROOT) IN
         SendResult(keys, request, IF e_root = None THEN 0 ELSE e_root[1], net)

\* The root of a conveyance result whose accept event has none is the empty
\* string, written 0.
handle_job_request_trade_conveyance(relay, keys, request, net) ==
    IF ~request.parses THEN Failed("ParseRequest")
    ELSE LET accept_evt == nostr_fetch_event_by_id(relay, net, request.prev) IN
    IF accept_evt = None THEN Failed("FetchReference")
    ELSE IF accept_evt[1].kind # KIND_TRADE_LISTING_ACCEPT_RES
    THEN Failed("InvalidAcceptKind")
    ELSE LET e_root == FirstTagValue(accept_evt[1].tags, TAG_E_ROOT) IN
         SendResult(keys, request, IF e_root = None THEN 0 ELSE e_root[1], net)

handle_job_request_trade_fulfillment(relay, keys, request, net) ==
    IF ~request.parses THEN Failed("ParseRequest")
    ELSE LET payment_evt == nostr_fetch_event_by_id(relay, net, request.prev) IN
    IF payment_evt = None THEN Failed("FetchReference")
    ELSE IF payment_evt[1].kind # KIND_TRADE_LISTING_PAYMENT_RES
    THEN Failed("InvalidPayment")
    ELSE LET e_root == FirstTagValue(payment_evt[1].tags, TAG_E_ROOT) IN
         IF e_root = None THEN Failed("InvalidPayment")
         ELSE SendResult(keys, request, e_root[1], net)

handle_job_request_trade_receipt(relay, keys, request, net) ==
    IF ~request.parses THEN Failed("ParseRequest")
    ELSE LET fulfill_evt == nostr_fetch_event_by_id(relay, net, request.prev) IN
    IF fulfill_evt = None THEN Failed("FetchReference")
    ELSE IF fulfill_evt[1].kind # KIND_TRADE_LISTING_FULFILL_RES
    THEN Failed("InvalidFulfillment")
    ELSE LET e_root == FirstTagValue(fulfill_evt[1].tags, TAG_E_ROOT) IN
         IF e_root = None THEN Failed("InvalidFulfillment")
         ELSE SendResult(keys, request, e_root[1], net)

InitPipeline ==
    /\ state = EmptyState
    /\ tasks = [t \in Tasks |-> "idle"]
    /\ sent = [k \in OrderIds \X AllIds |-> 0]
    /\ held = [t \in Tasks |-> NoTask]
    /\ lock = 0
    /\ sup = [relay |-> << >>]

\* The relay with a result the daemon sent: it keeps the event while it has
\* room.
Relayed(relay, r) ==
    IF r.out # None /\ Len(relay) < MaxRelay THEN Append(relay, r.out[1]) ELSE relay

\* An event of another origin appears on the relay. An id is the hash of the
\* event, tags included, so a tag names an event that existed before.
Publish(ev) ==
    /\ Len(sup.relay) < MaxPublished
    /\ \A i \in 1..Len(ev.tags) :
            Len(ev.tags[i]) = 2 => ev.tags[i][2] <= Len(sup.relay)
    /\ sup' = [sup EXCEPT !.relay = Append(@, ev)]
    /\ UNCHANGED <<state, tasks, sent, held, lock>>

AcceptRequested(request, net) ==
    /\ LET r == handle_job_request_trade_accept(sup.relay, Rhi, request, net) IN
       sup' = [relay |-> Relayed(sup.relay, r)]
    /\ UNCHANGED <<state, tasks, sent, held, lock>>

ConveyanceRequested(request, net) ==
    /\ LET r == handle_job_request_trade_conveyance(sup.relay, Rhi, request, net) IN
       sup' = [relay |-> Relayed(sup.relay, r)]
    /\ UNCHANGED <<state, tasks, sent, held, lock>>

FulfillmentRequested(request, net) ==
    /\ LET r == handle_job_request_trade_fulfillment(sup.relay, Rhi, request, net) IN
       sup' = [relay |-> Relayed(sup.relay, r)]
    /\ UNCHANGED <<state, tasks, sent, held, lock>>

ReceiptRequested(request, net) ==
    /\ LET r == handle_job_request_trade_receipt(sup.relay, Rhi, request, net) IN
       sup' = [relay |-> Relayed(sup.relay, r)]
    /\ UNCHANGED <<state, tasks, sent, held, lock>>

NextPipeline ==
    \/ \E ev \in PublishedEvents : Publish(ev)
    \/ \E request \in JobRequests("accept") : \E net \in Transports :
            AcceptRequested(request, net)
    \/ \E request \in JobRequests("conveyance") : \E net \in Transports :
            ConveyanceRequested(request, net)
    \/ \E request \in JobRequests("fulfillment") : \E net \in Transports :
            FulfillmentRequested(request, net)
    \/ \E request \in JobRequests("receipt") : \E net \in Transports :
            ReceiptRequested(request, net)

SpecPipeline == InitPipeline /\ [][NextPipeline]_vars

\* ------------------------------------------------------------------ claims

\* The transition table of the order state machine, as pairs (from, to).
TransitionTable ==
    {<<"Draft", "Requested">>, <<"Validated", "Requested">>,
     <<"Requested", "Accepted">>, <<"Requested", "Declined">>,
     <<"Requested", "Questioned">>, <<"Requested", "Revised">>,
     <<"Requested", "Cancelled">>,
     <<"Questioned", "Requested">>, <<"Questioned", "Revised">>,
     <<"Questioned", "Cancelled">>,
     <<"Revised", "Accepted">>, <<"Revised", "Declined">>,
     <<"Revised", "Cancelled">>, <<"Revised", "Requested">>,
     <<"Accepted", "Fulfilled">>, <<"Accepted", "Cancelled">>,
     <<"Fulfilled", "Completed">>, <<"Fulfilled", "Cancelled">>}

StatusOf(o) == state.orders[o].status

\* C1: every step keeps every order in the store and takes its status s to a
\* status t with s = t or (s, t) in the transition table; an order that enters
\* the store enters it as Requested. So the statuses an order takes are a path
\* of the table that starts at Requested.
C1_StatusStepsFollowTable ==
    [][\A o \in DOMAIN state.orders \cup DOMAIN state'.orders :
          IF o \in DOMAIN state.orders
          THEN /\ o \in DOMAIN state'.orders
               /\ \/ state'.orders[o].status = state.orders[o].status
                  \/ <<state.orders[o].status, state'.orders[o].status>> \in TransitionTable
          ELSE state'.orders[o].status = "Requested"]_vars

\* C1 witness: an order has gone the whole path from Requested to Completed,
\* which takes four committed events.
C1_Witness ==
    \E o \in DOMAIN state.orders :
        /\ StatusOf(o) = "Completed"
        /\ Cardinality(state.orders[o].seen_event_ids) >= 4

\* C2: an order whose status is Declined, Cancelled or Completed keeps that
\* status in every later step, whatever event is dispatched.
C2_TerminalStays ==
    [][\A o \in DOMAIN state.orders :
          StatusOf(o) \in Terminal =>
              /\ o \in DOMAIN state'.orders
              /\ state'.orders[o].status = StatusOf(o)]_vars

\* C2 witness: an order is Completed and events with an id it has not seen are
\* still dispatched on it: from its buyer, its seller and a third party, of a
\* kind that would move it, each refused.
C2_Witness ==
    \E o \in DOMAIN state.orders :
        /\ StatusOf(o) = "Completed"
        /\ \E e1, e2, e3 \in LifeEvents :
            /\ e1.pubkey = Buyer /\ e2.pubkey = Seller /\ e3.pubkey = Mallory
            /\ \A e \in {e1, e2, e3} :
                /\ e.content.order_id = Some(o)
                /\ ~is_event_seen(state, o, e.id)
            /\ handle_event(state, e1, "none").res = "InvalidTransition"
            /\ handle_event(state, e2, "none").res = "InvalidTransition"
            /\ handle_event(state, e3, "none").res = "Unauthorized"

\* The tasks that hold the event and are past the handler.
RanWith(event) ==
    {t \in Tasks : held[t].event = event /\ tasks[t] \in {"send", "feedback", "done"}}

\* C3: when two tasks hold the same event for an existing order, both have run
\* the handler and both found the order, at most one of them has committed
\* (and so has an envelope to send); if one has, the other has returned Ok
\* with nothing to send. The event has entered send_envelope at most once, and
\* exactly once if and only if its id is in the order's seen_event_ids.
C3_OneCommitPerEvent ==
    /\ \A t1, t2 \in Tasks :
          (/\ t1 # t2
           /\ held[t1].event # << >>
           /\ held[t1].event.content.message_type \in ExistingOrderTypes
           /\ {t1, t2} \subseteq RanWith(held[t1].event)
           /\ \A t \in {t1, t2} : OrderFound(held[t].at, held[t].event)
           /\ held[t1].out # None)
          => /\ held[t2].out = None
             /\ held[t2].res = "Ok"
             /\ tasks[t2] = "done"
    /\ \A o \in OrderIds : \A id \in AllIds :
          /\ sent[<<o, id>>] <= 1
          /\ sent[<<o, id>>] = 1 <=>
                (o \in DOMAIN state.orders /\ id \in state.orders[o].seen_event_ids)

\* C3 witness: two tasks held the same OrderResponse on a Requested order; one
\* has committed Accepted and has the envelope, the other has returned Ok.
C3_Witness ==
    \E t1, t2 \in Tasks : \E o \in DOMAIN state.orders :
        /\ t1 # t2
        /\ held[t1].event = held[t2].event
        /\ held[t1].event # << >>
        /\ held[t1].event.content.message_type = "OrderResponse"
        /\ held[t1].event.content.order_id = Some(o)
        /\ \A t \in {t1, t2} : OrderFound(held[t].at, held[t].event)
        /\ tasks[t1] = "send" /\ held[t1].out # None
        /\ tasks[t2] = "done" /\ held[t2].res = "Ok" /\ held[t2].out = None
        /\ StatusOf(o) = "Accepted"
        /\ Cardinality(state.orders[o].seen_event_ids) = 2
        /\ sent[<<o, held[t1].event.id>>] = 1

\* The message types only the order's seller may send, and only its buyer.
SellerTypes == {"OrderResponse", "OrderRevision", "Answer", "DiscountOffer",
                "FulfillmentUpdate"}

BuyerTypes == {"OrderRevisionAccept", "OrderRevisionDecline", "Question",
               "DiscountRequest", "DiscountAccept", "DiscountDecline", "Receipt"}

\* The sender rule, against the parties stored in the order.
SenderRule(mt, author, order) ==
    CASE mt \in SellerTypes -> pubkey_to_string(author) = order.seller_pubkey
      [] mt \in BuyerTypes -> pubkey_to_string(author) = order.buyer_pubkey
      [] mt = "Cancel" -> pubkey_to_string(author) \in {order.buyer_pubkey, order.seller_pubkey}
      [] OTHER -> FALSE

\* The payload names no other order than the envelope does.
PayloadNamesOrder(event) ==
    event.content.payload.order_id \in {None, event.content.order_id}

\* The events of a set that are about an order of the store.
OnStoredOrder(events) ==
    {e \in events : e.content.message_type \in ExistingOrderTypes /\ OrderFound(state, e)}

\* C4: in every reachable state and for every event about an order of the
\* store, the handler changes the order's status or seen_event_ids only if the
\* author satisfies the sender rule against the order's stored buyer and seller;
\* an author who does not, with an event id the order has not seen and a payload
\* that names the envelope's order, gets Unauthorized and changes nothing.
C4_SenderRuleGuardsChange ==
    \A e \in OnStoredOrder(Events) :
        LET o == e.content.order_id[1]
            order == state.orders[o]
            r == handle_event(state, e, "none")
            allowed == SenderRule(e.content.message_type, e.pubkey, order)
        IN /\ (\/ r.st.orders[o].status # order.status
               \/ r.st.orders[o].seen_event_ids # order.seen_event_ids) => allowed
           /\ (~allowed /\ ~is_event_seen(state, o, e.id) /\ PayloadNamesOrder(e))
                => r = Result(state, "Unauthorized", None)

\* C4 witness: the seller's OrderResponse has been committed on an order, a
\* Cancel of its buyer would be committed now, and a Cancel of a third party and
\* a Receipt of the seller, both with unseen ids, are refused as Unauthorized.
C4_Witness ==
    \E o \in DOMAIN state.orders :
        LET order == state.orders[o]
            fresh == {e \in OnStoredOrder(Events) :
                        e.content.order_id = Some(o) /\ ~is_event_seen(state, o, e.id)}
        IN /\ order.status = "Accepted"
           /\ Cardinality(order.seen_event_ids) = 2
           /\ \E e \in fresh :
                /\ e.content.message_type = "Cancel"
                /\ pubkey_to_string(e.pubkey) = order.buyer_pubkey
                /\ handle_event(state, e, "none").st.orders[o].status = "Cancelled"
           /\ \E e \in fresh :
                /\ e.content.message_type = "Cancel"
                /\ pubkey_to_string(e.pubkey) \notin {order.buyer_pubkey, order.seller_pubkey}
                /\ handle_event(state, e, "none").res = "Unauthorized"
           /\ \E e \in fresh :
                /\ e.content.message_type = "Receipt"
                /\ pubkey_to_string(e.pubkey) = order.seller_pubkey
                /\ handle_event(state, e, "none").res = "Unauthorized"

HandlerErrors == {"Unauthorized", "MissingOrder", "InvalidOrder", "InvalidTransition"}

\* The events of a set with a message type that operates on an existing order.
ForExistingOrder(events) ==
    {e \in events : e.content.message_type \in ExistingOrderTypes}

\* C5: in every reachable state, a handler for an existing-order message that
\* fails with Unauthorized, MissingOrder, InvalidOrder or InvalidTransition
\* returns the store it found, has no envelope, and send_envelope is not
\* entered; the task goes on to the job feedback only.
C5_FailureLeavesStore ==
    \A e \in ForExistingOrder(Events) :
        LET r == handle_event(state, e, "none") IN
        r.res \in HandlerErrors =>
            /\ r.st = state
            /\ r.out = None
            /\ Sent(sent, e, r) = sent
            /\ NextPc(r) = "feedback"

\* C5 witness: an order is Declined; a FulfillmentUpdate of its seller with an
\* unseen id fails with InvalidTransition, an OrderResponse of its buyer with
\* Unauthorized, an OrderRevision that names another order with InvalidOrder,
\* and each leaves the event id out of seen_event_ids.
C5_Witness ==
    \E o \in DOMAIN state.orders :
        LET order == state.orders[o]
            fresh == {e \in OnStoredOrder(Events) :
                        e.content.order_id = Some(o) /\ ~is_event_seen(state, o, e.id)}
            Fails(mt, author, err) ==
                \E e \in fresh :
                    /\ e.content.message_type = mt
                    /\ pubkey_to_string(e.pubkey) = author
                    /\ handle_event(state, e, "none").res = err
                    /\ e.id \notin handle_event(state, e, "none").st.orders[o].seen_event_ids
        IN /\ order.status = "Declined"
           /\ Fails("FulfillmentUpdate", order.seller_pubkey, "InvalidTransition")
           /\ Fails("OrderResponse", order.buyer_pubkey, "Unauthorized")
           /\ Fails("OrderRevision", order.seller_pubkey, "InvalidOrder")

\* C6: in every reachable state, an event of a message type that operates on
\* an existing order, whose id is in the seen_event_ids of the order it names,
\* returns Ok with the store as it was and no envelope, and the task ends
\* without job feedback, whatever the order's status and the event's author.
\* The event is one that was committed before, so its payload names the
\* envelope's order.
C6_ReplayIsSilent ==
    \A e \in OnStoredOrder(LifeEvents) :
        (is_event_seen(state, e.content.order_id[1], e.id) /\ PayloadNamesOrder(e))
        => LET r == handle_event(state, e, "none") IN
            /\ r = Result(state, "Ok", None)
            /\ Sent(sent, e, r) = sent
            /\ NextPc(r) = "idle"

\* C6 witness: an order is Completed after four committed events, and events
\* with a seen id from its buyer, its seller and a third party, of a type that
\* no status admits from Completed, are answered Ok.
C6_Witness ==
    \E o \in DOMAIN state.orders :
        LET order == state.orders[o]
            Replayed(mt, author) ==
                \E e \in OnStoredOrder(LifeEvents) :
                    /\ e.content.order_id = Some(o)
                    /\ e.id \in order.seen_event_ids
                    /\ e.content.message_type = mt
                    /\ e.pubkey = author
                    /\ handle_event(state, e, "none") = Result(state, "Ok", None)
        IN /\ order.status = "Completed"
           /\ Cardinality(order.seen_event_ids) >= 4
           /\ Replayed("Cancel", Buyer)
           /\ Replayed("FulfillmentUpdate", Seller)
           /\ Replayed("Receipt", Mallory)

\* The OrderRequest events of a set.
OrderRequests(events) == {e \in events : e.content.message_type = "OrderRequest"}

\* The payload of an OrderRequest repeats the envelope's order id and listing
\* address.
PayloadMatchesEnvelope(e) ==
    /\ e.content.payload.order_id = e.content.order_id
    /\ e.content.payload.listing_addr = e.content.listing_addr

\* C7: in every reachable state, an OrderRequest for a validated listing and an
\* order id the store does not have, whose payload repeats the envelope's order
\* id and listing address, names the author as buyer and the listing address's
\* seller as seller, returns Ok; the store gains exactly that order, Requested,
\* with that buyer and seller and seen_event_ids = {event id}; and send_envelope
\* is entered once, with an OrderRequest envelope for the seller.
C7_OrderRequestCreates ==
    \A e \in OrderRequests(Events) :
        LET o == e.content.order_id[1]
            pl == e.content.payload
            addr == TradeListingAddress_parse(e.content.listing_addr)
            r == handle_event(state, e, "none")
        IN (/\ is_listing_validated(state, e.content.listing_addr)
            /\ ~order_exists(state, o)
            /\ PayloadMatchesEnvelope(e)
            /\ pl.buyer_pubkey = pubkey_to_string(e.pubkey)
            /\ pl.seller_pubkey = addr.seller_pubkey)
           => /\ r.res = "Ok"
              /\ r.st.validated_listings = state.validated_listings
              /\ DOMAIN r.st.orders = DOMAIN state.orders \cup {o}
              /\ \A x \in DOMAIN state.orders : r.st.orders[x] = state.orders[x]
              /\ r.st.orders[o] = [order_id |-> o,
                                   listing_addr |-> e.content.listing_addr,
                                   buyer_pubkey |-> pubkey_to_string(e.pubkey),
                                   seller_pubkey |-> addr.seller_pubkey,
                                   status |-> "Requested",
                                   seen_event_ids |-> {e.id}]
              /\ r.out # None
              /\ r.out[1].recipient = addr.seller_pubkey
              /\ r.out[1].message_type = "OrderRequest"
              /\ r.out[1].order_id = Some(o)
              /\ r.out[1].listing_addr = e.content.listing_addr
              /\ Sent(sent, e, r)[<<o, e.id>>] = 1
              /\ NextPc(r) = "send"

\* C7 witness: an OrderRequest has just created an order: the order is
\* Requested with one seen event id, whose envelope a task is sending, and its
\* seller is the seller of its validated listing.
C7_Witness ==
    \E o \in DOMAIN state.orders : \E t \in Tasks :
        LET order == state.orders[o] IN
        /\ order.status = "Requested"
        /\ Cardinality(order.seen_event_ids) = 1
        /\ \A id \in order.seen_event_ids : sent[<<o, id>>] = 1
        /\ tasks[t] = "send"
        /\ order.buyer_pubkey = pubkey_to_string(Buyer)
        /\ order.seller_pubkey = TradeListingAddress_parse(order.listing_addr).seller_pubkey
        /\ is_listing_validated(state, order.listing_addr)

\* The OrderRequests of SpecConc for an order of the store whose payload repeats
\* the envelope.
RepeatedRequests ==
    {e \in OrderRequests(ConcEvents) :
        OrderFound(state, e) /\ PayloadMatchesEnvelope(e)}

\* An OrderRequest that is answered Ok with the store as it was, no envelope
\* and no job feedback.
SilentSuccess(e) ==
    LET r == handle_event(state, e, "none") IN
    /\ r = Result(state, "Ok", None)
    /\ Sent(sent, e, r) = sent
    /\ NextPc(r) = "idle"

\* C8 as stated: every OrderRequest whose order id is in the store is a silent
\* success.
C8_AnyRepeatIsSilent ==
    \A e \in RepeatedRequests : SilentSuccess(e)

\* C8, amended: an OrderRequest whose order id is in the store and whose
\* listing address is in validated_listings is a silent success, be it the
\* creating event again or another event; one whose listing address is not
\* validated fails with ListingNotValidated, the store unchanged. Of two tasks
\* that ran the same OrderRequest and found its listing validated, at most one
\* inserted the order and has the envelope, and the other returned Ok with
\* nothing; the creating event entered send_envelope once.
C8_RepeatOnValidatedIsSilent ==
    /\ \A e \in RepeatedRequests :
          IF is_listing_validated(state, e.content.listing_addr)
          THEN SilentSuccess(e)
          ELSE handle_event(state, e, "none") = Result(state, "ListingNotValidated", None)
    /\ \A t1, t2 \in Tasks :
          (/\ t1 # t2
           /\ held[t1].event # << >>
           /\ held[t1].event.content.message_type = "OrderRequest"
           /\ {t1, t2} \subseteq RanWith(held[t1].event)
           /\ \A t \in {t1, t2} :
                is_listing_validated(held[t].at, held[t].event.content.listing_addr)
           /\ held[t1].out # None)
          => /\ held[t2].out = None
             /\ held[t2].res = "Ok"
             /\ tasks[t2] = "done"
    /\ \A o \in DOMAIN state.orders :
          /\ state.orders[o].seen_event_ids # {}
          /\ \A id \in state.orders[o].seen_event_ids : sent[<<o, id>>] = 1

\* C8 witness: two tasks ran the same OrderRequest; one inserted the order and
\* is sending, the other found the order and returned Ok; the order has the
\* one event id, and an OrderRequest with another event id for it is a silent
\* success too.
C8_Witness ==
    \E t1, t2 \in Tasks : \E o \in DOMAIN state.orders :
        /\ t1 # t2
        /\ held[t1].event = held[t2].event
        /\ held[t1].event # << >>
        /\ held[t1].event.content.message_type = "OrderRequest"
        /\ held[t1].event.content.order_id = Some(o)
        /\ tasks[t1] = "send" /\ held[t1].out # None
        /\ ~OrderFound(held[t1].at, held[t1].event)
        /\ tasks[t2] = "done" /\ held[t2].res = "Ok" /\ held[t2].out = None
        /\ OrderFound(held[t2].at, held[t2].event)
        /\ state.orders[o].seen_event_ids = {held[t1].event.id}
        /\ \E e \in RepeatedRequests :
            /\ e.id # held[t1].event.id
            /\ is_listing_validated(state, e.content.listing_addr)
            /\ SilentSuccess(e)

\* The listing address parses and is of the listing kind.
IsListingAddress(s) ==
    LET a == TradeListingAddress_parse(s) IN a.ok /\ a.kind = ListingKind

\* C9: in every reachable state every order's listing_addr is in
\* validated_listings; and an OrderRequest for a listing address that is not
\* fails and leaves the store as it was, with ListingNotValidated when the
\* request is otherwise well formed (a listing address of the listing kind,
\* a payload that repeats the envelope).
C9_OrdersOnValidatedListings ==
    /\ \A o \in DOMAIN state.orders :
          is_listing_validated(state, state.orders[o].listing_addr)
    /\ \A e \in OrderRequests(Events) :
          LET r == handle_event(state, e, "none") IN
          ~is_listing_validated(state, e.content.payload.listing_addr)
          => /\ r.res # "Ok"
             /\ r.st = state
             /\ r.out = None
             /\ (PayloadMatchesEnvelope(e) /\ IsListingAddress(e.content.listing_addr))
                  => r.res = "ListingNotValidated" /\ NextPc(r) = "feedback"

\* C9 witness: one listing is validated and has an order, another is not, and
\* a well-formed OrderRequest for the other, from its buyer and naming its
\* seller, is refused with ListingNotValidated.
C9_Witness ==
    /\ \E o \in DOMAIN state.orders : is_listing_validated(state, state.orders[o].listing_addr)
    /\ \E e \in OrderRequests(Events) :
        /\ PayloadMatchesEnvelope(e)
        /\ IsListingAddress(e.content.listing_addr)
        /\ e.content.payload.buyer_pubkey = pubkey_to_string(e.pubkey)
        /\ e.content.payload.seller_pubkey
                = TradeListingAddress_parse(e.content.listing_addr).seller_pubkey
        /\ ~is_listing_validated(state, e.content.listing_addr)
        /\ handle_event(state, e, "none") = Result(state, "ListingNotValidated", None)

\* C10: in every reachable state every order's listing_addr parses as a listing
\* address of kind 30402 whose seller is the order's seller_pubkey; and an
\* OrderRequest that puts an order into the store puts it there with the
\* event's author as buyer_pubkey, which no later step changes.
C10_OrderPartiesFromAddress ==
    /\ \A o \in DOMAIN state.orders :
          LET order == state.orders[o] IN
          /\ IsListingAddress(order.listing_addr)
          /\ order.seller_pubkey
                = TradeListingAddress_parse(order.listing_addr).seller_pubkey
    /\ \A e \in Events :
          LET r == handle_event(state, e, "valid") IN
          \A o \in DOMAIN r.st.orders :
             IF o \in DOMAIN state.orders
             THEN /\ r.st.orders[o].buyer_pubkey = state.orders[o].buyer_pubkey
                  /\ r.st.orders[o].seller_pubkey = state.orders[o].seller_pubkey
                  /\ r.st.orders[o].listing_addr = state.orders[o].listing_addr
             ELSE /\ e.content.message_type = "OrderRequest"
                  /\ r.st.orders[o].buyer_pubkey = pubkey_to_string(e.pubkey)

\* C10 witness: both listings are validated, the store holds an order on the
\* listing of seller M with M as its seller and the author of its OrderRequest
\* as its buyer, and an OrderRequest whose payload names another listing than
\* its envelope is refused.
C10_Witness ==
    /\ Cardinality(state.validated_listings) = 2
    /\ \E o \in DOMAIN state.orders :
          /\ state.orders[o].listing_addr = AddrM
          /\ state.orders[o].seller_pubkey = pubkey_to_string(Mallory)
          /\ state.orders[o].buyer_pubkey = pubkey_to_string(Buyer)
          /\ Cardinality(state.orders[o].seen_event_ids) = 1
    /\ \E e \in OrderRequests(Events) :
          /\ e.content.payload.listing_addr # e.content.listing_addr
          /\ e.content.payload.order_id = e.content.order_id
          /\ handle_event(state, e, "none") = Result(state, "InvalidOrder", None)

\* The daemon has accepted an OrderRequest for the order: send_envelope was
\* entered for it, which no handler does for an order that is not in the store.
AcceptedRequestFor(o) == \E id \in AllIds : sent[<<o, id>>] > 0

\* C11: an order id is in orders if and only if the daemon has accepted an
\* OrderRequest for it, in every state of the process, also after the
\* supervisor has run the subscriber again.
C11_OrdersOutliveRestart ==
    \A o \in OrderIds : o \in DOMAIN state.orders <=> AcceptedRequestFor(o)

\* C12: no step takes an event id out of an order's seen_event_ids or adds
\* more than one, and a step that changes the status adds one; and in every
\* reachable state a handler that returns Ok for an event about a stored order
\* with an unseen id returns the store with exactly that id added to the
\* order's seen_event_ids, in the one step that also sets the status.
C12_SeenOnlyGrows ==
    /\ [](\A e \in OnStoredOrder(LifeEvents) :
            LET o == e.content.order_id[1]
                r == handle_event(state, e, "none")
            IN (r.res = "Ok" /\ ~is_event_seen(state, o, e.id))
               => r.st.orders[o].seen_event_ids
                    = state.orders[o].seen_event_ids \cup {e.id})
    /\ [][\A o \in DOMAIN state.orders :
            /\ o \in DOMAIN state'.orders
            /\ state.orders[o].seen_event_ids \subseteq state'.orders[o].seen_event_ids
            /\ Cardinality(state'.orders[o].seen_event_ids
                             \ state.orders[o].seen_event_ids) <= 1
            /\ state'.orders[o].status # state.orders[o].status
                => state'.orders[o].seen_event_ids # state.orders[o].seen_event_ids]_vars

\* C12 witness: an order has recorded every event id there is, one by one, the
\* last ones after it was Completed.
C12_Witness ==
    \E o \in DOMAIN state.orders :
        /\ state.orders[o].seen_event_ids = LifeIds
        /\ state.orders[o].status = "Completed"

\* C13: in every reachable state and for every delivered event the dispatcher
\* answers with an outbound envelope, that envelope's listing_addr is the
\* inbound envelope's listing_addr and its order_id is the inbound envelope's
\* order_id.
C13_OutboundEchoesInbound ==
    \A e \in Events : \A f \in FetchFor(e) :
        LET r == handle_event(state, e, f)
        IN r.out # None =>
            /\ r.out[1].listing_addr = e.content.listing_addr
            /\ r.out[1].order_id = e.content.order_id

\* The event send_envelope builds for the envelope a handler returns.
Outbound(r) ==
    LET env == r.out[1]
    IN send_envelope(env.recipient, env.message_type, env.listing_addr, env.order_id,
                     env.payload)

\* C14: in every reachable state and for every delivered event the dispatcher
\* answers, the outbound event's first tag is [p, recipient], its second is
\* [a, listing_addr] of its envelope, it has a third tag exactly when its
\* envelope has an order_id, and that tag is [d, order_id]; its kind is its
\* message type's kind; its message type is the inbound one, except that a
\* ListingValidateRequest is answered with a ListingValidateResult without
\* order_id and without d tag.
C14_OutboundTagsAndType ==
    \A e \in Events : \A f \in FetchFor(e) :
        LET r == handle_event(state, e, f)
        IN r.out # None =>
            LET env == r.out[1]
                ev == Outbound(r)
                inbound == e.content.message_type
            IN /\ Len(ev.tags) >= 2
               /\ ev.tags[1] = <<"p", env.recipient>>
               /\ ev.tags[2] = <<"a", ev.content.listing_addr>>
               /\ Len(ev.tags) = (IF ev.content.order_id = None THEN 2 ELSE 3)
               /\ ev.content.order_id # None
                    => ev.tags[3] = <<"d", ev.content.order_id[1]>>
               /\ ev.kind = message_type_kind(ev.content.message_type)
               /\ IF inbound = "ListingValidateRequest"
                  THEN /\ ev.content.message_type = "ListingValidateResult"
                       /\ ev.content.order_id = None
                       /\ tag_value(ev.tags, "d") = None
                  ELSE /\ ev.content.message_type = inbound
                       /\ tag_value(ev.tags, "d") = e.content.order_id

\* A ListingValidateRequest has been answered, and an order that took an
\* OrderRequest and a following message has forwarded both.
C14_Witness ==
    /\ state.validated_listings # {}
    /\ \E o \in DOMAIN state.orders :
            /\ Cardinality(state.orders[o].seen_event_ids) >= 2
            /\ \A id \in state.orders[o].seen_event_ids : sent[<<o, id>>] > 0

\* The message types whose outbound envelope goes to the order's buyer, and
\* those whose envelope goes to the order's seller.
ToBuyerTypes ==
    {"OrderResponse", "OrderRevision", "Answer", "DiscountOffer", "FulfillmentUpdate"}

ToSellerTypes ==
    {"OrderRequest", "OrderRevisionAccept", "OrderRevisionDecline", "Question",
     "DiscountRequest", "DiscountAccept", "DiscountDecline", "Receipt"}

\* The recipient table, for an event of an order message type the dispatcher
\* has answered with r: the order is the one the store holds after the handler.
RecipientRule(e, r) ==
    LET mt == e.content.message_type
        order == r.st.orders[e.content.order_id[1]]
        author == pubkey_to_string(e.pubkey)
        recipient == r.out[1].recipient
    IN /\ mt \in ToBuyerTypes => recipient = order.buyer_pubkey
       /\ mt \in ToSellerTypes => recipient = order.seller_pubkey
       /\ mt = "Cancel" =>
            /\ author = order.buyer_pubkey => recipient = order.seller_pubkey
            /\ author = order.seller_pubkey => recipient = order.buyer_pubkey
            /\ author \in {order.buyer_pubkey, order.seller_pubkey}

\* The events of order message types.
OrderMessages(events) ==
    {e \in events : e.content.message_type \in ToBuyerTypes \cup ToSellerTypes \cup {"Cancel"}}

\* C15 as stated: in every reachable state, the outbound envelope of every
\* order message follows the recipient table and is never addressed to the
\* event's author.
C15_NeverToTheAuthor ==
    \A e \in OrderMessages(Events) :
        LET r == handle_event(state, e, "none")
        IN r.out # None =>
            /\ RecipientRule(e, r)
            /\ r.out[1].recipient # pubkey_to_string(e.pubkey)

\* C15, amended: in every reachable state, the outbound envelope of every
\* order message follows the recipient table, and it is not addressed to the
\* event's author when the order's buyer and seller are different keys.
C15_RecipientIsTheOtherParty ==
    \A e \in OrderMessages(Events) :
        LET r == handle_event(state, e, "none")
        IN r.out # None =>
            LET order == r.st.orders[e.content.order_id[1]]
            IN /\ RecipientRule(e, r)
               /\ order.buyer_pubkey # order.seller_pubkey
                    => r.out[1].recipient # pubkey_to_string(e.pubkey)

\* An order between two different keys has been cancelled after another
\* message, and both were forwarded.
C15_Witness ==
    \E o \in DOMAIN state.orders :
        /\ state.orders[o].buyer_pubkey # state.orders[o].seller_pubkey
        /\ state.orders[o].status = "Cancelled"
        /\ Cardinality(state.orders[o].seen_event_ids) >= 2
        /\ \A id \in state.orders[o].seen_event_ids : sent[<<o, id>>] > 0

\* C16: in every reachable state, a task that awaits the transport (the fetch
\* of the listing event, the outbound send, the feedback send) does not hold the
\* lock around the store; the lock's holder is between lock() and the drop of
\* its guard.
C16_NoLockAcrossTransport ==
    /\ \A t \in Tasks : tasks[t] \in {"fetch", "send", "feedback", "done", "idle"} => lock # t
    /\ lock # 0 => tasks[lock] \in {"read", "commit", "drop"}

\* A task of an order handler awaits its outbound send while another task
\* holds the lock.
C16_Witness ==
    \E t, u \in Tasks :
        /\ tasks[t] = "send"
        /\ held[t].event.content.message_type # "ListingValidateRequest"
        /\ lock = u
        /\ u # t

\* C17: in every reachable state, a task between its checks and the drop of
\* its guard holds the lock, and the store it commits to is the store its
\* checks read; once the buyer's Cancel has been forwarded the order is
\* Cancelled, whatever OrderResponse raced with it.
C17_HandlersAreLinearized ==
    /\ \A t \in Tasks : tasks[t] \in {"read", "commit", "drop"} => lock = t
    /\ \A t \in Tasks : tasks[t] = "commit" => held[t].at = state
    /\ \A o \in DOMAIN state.orders :
            sent[<<o, CancelId>>] > 0 => state.orders[o].status = "Cancelled"

\* The race: the buyer's Cancel has been committed on the Requested order and
\* its task still holds the guard, while the task of the seller's accepting
\* OrderResponse waits for the lock.
C17_Witness ==
    \E t, u \in Tasks :
        /\ tasks[t] = "drop" /\ lock = t
        /\ held[t].event.content.message_type = "Cancel"
        /\ held[t].event.pubkey = Buyer
        /\ held[t].res = "Ok"
        /\ held[t].at.orders[held[t].event.content.order_id[1]].status = "Requested"
        /\ tasks[u] = "lock"
        /\ held[u].event.content.message_type = "OrderResponse"
        /\ held[u].event.content.payload.accepted

\* The fields of an order no handler writes after its creation.
Identity(order) ==
    <<order.order_id, order.listing_addr, order.buyer_pubkey, order.seller_pubkey>>

\* C18: in every reachable state with up to two orders and for every delivered
\* event, the handler leaves every order but the one the event names as it
\* is, keeps that order's order_id, listing_addr, buyer_pubkey and
\* seller_pubkey, removes no order, changes validated_listings only for a
\* ListingValidateRequest (which changes no order) and adds an order only for
\* an OrderRequest.
C18_HandlerFrame ==
    \A e \in FrameEvents : \A f \in FetchFor(e) :
        LET r == handle_event(state, e, f)
            mt == e.content.message_type
            before == state.orders
            after == r.st.orders
        IN /\ DOMAIN before \subseteq DOMAIN after
           /\ \A o \in DOMAIN before :
                /\ e.content.order_id # Some(o) => after[o] = before[o]
                /\ Identity(after[o]) = Identity(before[o])
           /\ \A o \in DOMAIN after \ DOMAIN before :
                mt = "OrderRequest" /\ e.content.order_id = Some(o)
           /\ mt # "ListingValidateRequest"
                => r.st.validated_listings = state.validated_listings
           /\ mt = "ListingValidateRequest" => after = before

\* Two orders on two listings, one of which has taken a message the other
\* has not.
C18_Witness ==
    /\ DOMAIN state.orders = TwoOrderIds
    /\ state.validated_listings = {AddrS, AddrM}
    /\ state.orders[<<"o1">>].status = "Cancelled"
    /\ state.orders[<<"o2">>].status = "Requested"
    /\ state.orders[<<"o1">>].listing_addr # state.orders[<<"o2">>].listing_addr

\* The errors the first failing check may give, taking the checks in the order
\* recipient, envelope, kind, a, d, listing address; the empty set when no
\* check fails.
FirstFailure(base, x) ==
    IF x.p # "ok" THEN {"MissingRecipient"}
    ELSE IF x.envelope # "ok" THEN {"Serde", "InvalidEnvelope"}
    ELSE IF x.kind # "ok" THEN {"TagMismatch"}
    ELSE IF x.a \in {"missing", "no_value"} THEN {"MissingTag"}
    ELSE IF x.a \in {"other", "other_then_ok"} THEN {"TagMismatch"}
    ELSE IF requires_order_id(base.content.message_type) /\ x.d = "missing"
    THEN {"MissingTag"}
    ELSE IF requires_order_id(base.content.message_type) /\ x.d = "other"
    THEN {"TagMismatch"}
    ELSE IF x.addr # "ok" THEN {"InvalidListingAddr"}
    ELSE {}

PrecheckErrors ==
    {"MissingRecipient", "Serde", "InvalidEnvelope", "TagMismatch", "MissingTag",
     "InvalidListingAddr"}

\* C20: in every reachable state and for every event of a trade-listing kind
\* that another key authored, with any combination of defects, handle_event
\* answers the error of the first failing check in the order recipient,
\* envelope, kind, a, d, listing address, with the store unchanged and nothing
\* sent: MissingRecipient without a p tag of the daemon's key, MissingTag for
\* a missing a tag or a missing required d tag, TagMismatch for a kind, a tag
\* or d tag that differs from the envelope; and it answers none of these
\* errors when no check fails.
C20_FirstFailingCheckDecides ==
    \A base \in WellFormed : \A x \in Defects :
        LET r == handle_event(state, Malformed(base, x), "valid")
            expected == FirstFailure(base, x)
        IN IF expected = {}
           THEN r.res \notin PrecheckErrors
           ELSE /\ r.res \in expected
                /\ r.st = state
                /\ r.out = None

\* A store on which the well-formed OrderResponse is accepted and changes the
\* order, while the same event without its p tag changes nothing.
C20_Witness ==
    \E base \in WellFormed :
        /\ base.content.message_type = "OrderResponse"
        /\ Malformed(base, NoDefect) = base
        /\ handle_event(state, base, "none").res = "Ok"
        /\ handle_event(state, base, "none").st # state
        /\ handle_event(state, Malformed(base, [NoDefect EXCEPT !.p = "missing"]),
                        "none").st = state

\* C19: in every reachable state, a task that has ended sent exactly one job
\* feedback if the dispatcher returned an error other than UnsupportedKind and
\* MissingRecipient, and none otherwise; no task sends feedback before its
\* dispatcher returned, a task that sent its feedback has ended whether or
\* not the transport took it, and the subscriber's loop is running.
C19_OneFeedbackPerError ==
    /\ \A t \in Tasks :
        /\ tasks[t] = "done" =>
                held[t].fb = (IF held[t].res = "Ok" \/ held[t].res \in SilentErrors
                              THEN 0 ELSE 1)
        /\ tasks[t] # "done" => held[t].fb = 0
    /\ sup.pc = "loop"

\* One task has ended after the feedback for a handler's error, another after
\* a silent drop.
C19_Witness ==
    \E t, u \in Tasks :
        /\ tasks[t] = "done" /\ held[t].res = "InvalidTransition" /\ held[t].fb = 1
        /\ tasks[u] = "done" /\ held[u].res \in SilentErrors /\ held[u].fb = 0

\* The delivered and the rejected events, as the daemon's key would sign them.
OwnEvents ==
    {[e EXCEPT !.pubkey = Rhi] : e \in Events \cup RejectedEvents}

\* C21: in every reachable state, an event the daemon's own key authored,
\* well-formed or not and of any kind, leaves the store as it is, returns no
\* outbound envelope and leads to no job feedback.
C21_OwnEventsAreNoOps ==
    \A e \in OwnEvents : \A f \in FetchFor(e) :
        LET r == handle_event(state, e, f)
        IN /\ r.st = state
           /\ r.out = None
           /\ NextPc(r) = "idle"

\* A store on which an event changes an order and is forwarded when the
\* seller signed it, and does nothing when the daemon signed it.
C21_Witness ==
    \E e \in OnStoredOrder(Events) :
        /\ handle_event(state, e, "none").st # state
        /\ handle_event(state, e, "none").out # None
        /\ handle_event(state, [e EXCEPT !.pubkey = Rhi], "none").st = state

\* The ListingValidateRequests among the delivered events that pass the
\* dispatcher's checks of the listing address.
ValidateRequests ==
    {e \in Events : /\ e.content.message_type = "ListingValidateRequest"
                    /\ IsListingAddress(e.content.listing_addr)}

\* C22: in every reachable state and for every ListingValidateRequest, after
\* the handler validated_listings is what it was plus the listing address if
\* and only if the fetch resolved a listing event the validator accepted; the
\* reply is a ListingValidateResult to the author of the request, with valid
\* = true and no errors in that case and valid = false with one error
\* otherwise.
C22_ValidatedIffValidatorOk ==
    \A e \in ValidateRequests : \A f \in FetchOutcomes :
        LET r == handle_event(state, e, f)
            addr == e.content.listing_addr
            reply == r.out[1]
        IN /\ r.st.validated_listings =
                state.validated_listings \cup (IF f = "valid" THEN {addr} ELSE {})
           /\ r.st.orders = state.orders
           /\ r.out # None
           /\ reply.message_type = "ListingValidateResult"
           /\ reply.recipient = pubkey_to_string(e.pubkey)
           /\ reply.payload.valid = (f = "valid")
           /\ Cardinality(reply.payload.errors) = (IF f = "valid" THEN 0 ELSE 1)

\* One listing is validated and the other is not, on a store that has an
\* order: a request for the second listing adds it only with a valid listing
\* event.
C22_Witness ==
    /\ state.validated_listings = {AddrS}
    /\ state.orders # << >>
    /\ \E e \in ValidateRequests :
            /\ e.content.listing_addr = AddrM
            /\ AddrM \in handle_event(state, e, "valid").st.validated_listings
            /\ AddrM \notin handle_event(state, e, "invalid").st.validated_listings

\* C23: in every reachable state and for every ListingValidateRequest whose
\* listing event cannot be obtained, the handler returns Ok with
\* validated_listings unchanged and a ListingValidateResult for the requester
\* with valid = false and the one error ListingEventFetchFailed for a failed
\* fetch, ListingEventNotFound for an empty or not-found answer; the task goes
\* on to send the reply, not a job feedback.
C23_NoListingEventNoMark ==
    \A e \in ValidateRequests : \A f \in {"failed", "not_found"} :
        LET r == handle_event(state, e, f)
            reply == r.out[1]
        IN /\ r.res = "Ok"
           /\ r.st = state
           /\ r.out # None
           /\ reply.recipient = pubkey_to_string(e.pubkey)
           /\ reply.message_type = "ListingValidateResult"
           /\ ~reply.payload.valid
           /\ reply.payload.errors = (IF f = "failed" THEN {"ListingEventFetchFailed"}
                                      ELSE {"ListingEventNotFound"})
           /\ NextPc(r) = "send"

\* No listing is validated yet although a task has answered a request and is
\* about to send its reply.
C23_Witness ==
    /\ state.validated_listings = {}
    /\ \E t \in Tasks : tasks[t] = "send"
    /\ \E e \in ValidateRequests :
            handle_event(state, e, "valid").st.validated_listings # {}

\* C24: the subscriber loop ends in two ways only: on the stop signal, after
\* which it unsubscribes and returns success, or on a notification channel
\* error, after which it unsubscribes and returns an error; with stop already
\* requested at its start it returns success without subscribing or touching
\* the store; a handler task is spawned only while the loop runs, and no step
\* of the supervisor or the subscriber touches a spawned task.
C24_LoopEndsOnStopOrClosedChannel ==
    [][/\ (sup.pc = "loop" /\ sup'.pc # "loop") =>
            /\ sup'.pc = "unsubscribe"
            /\ sup'.why \in {"stop", "closed"}
            /\ sup'.why = "stop" => sup.stop
       /\ (sup.pc = "unsubscribe" /\ sup'.pc # "unsubscribe") =>
            /\ sup'.pc = "returned"
            /\ ~sup'.subscribed
            /\ sup'.res = (IF sup.why = "stop" THEN "Ok" ELSE "Err")
       /\ (sup.pc = "subscriber" /\ sup.stop /\ sup'.pc # "subscriber") =>
            /\ sup'.pc = "returned"
            /\ sup'.res = "Ok"
            /\ ~sup'.subscribed
            /\ state' = state
       /\ \A t \in Tasks : (tasks[t] = "idle" /\ tasks'[t] # "idle") => sup.pc = "loop"
       /\ sup'.pc # sup.pc => (tasks' = tasks /\ held' = held /\ sent' = sent)
      ]_vars

\* The loop of a subscriber ended on a channel error, the subscription is
\* closed and an error returned, while a task spawned in the loop still runs.
C24_Witness ==
    /\ sup.pc = "returned"
    /\ sup.why = "closed"
    /\ sup.res = "Err"
    /\ ~sup.subscribed
    /\ \E t \in Tasks : tasks[t] # "idle"

\* C25: once stop() has been called on the handle or a clone, the supervisor
\* task eventually ends (so that stopped() returns), wherever the supervisor
\* is at that moment, provided transport calls and timers return; the first
\* call sends true, and a later call changes nothing but the count of calls.
C25_StopEndsTheSupervisor ==
    /\ (sup.calls > 0) ~> (sup.pc = "exit")
    /\ [][sup'.calls # sup.calls =>
            /\ sup'.stop
            /\ ~sup.sender => sup' = [sup EXCEPT !.calls = sup'.calls]
            /\ UNCHANGED <<state, tasks, sent, held, lock>>
         ]_vars
    /\ [][sup.pc = "exit" => sup'.pc = "exit"]_vars

\* The supervisor has ended after a stop() that came while a failed subscriber
\* was behind it, and stop() was called again.
C25_Witness ==
    /\ sup.pc = "exit"
    /\ sup.calls >= 2
    /\ sup.backoff > 0

\* C26: when subscriber returns an error and stop is not requested, the
\* supervisor takes the next backoff delay and waits; the wait ends with the
\* sleep, after which it goes round its loop to connect and call subscriber
\* again, or with stop, after which it exits; the supervisor task ends only
\* after stop was requested, whatever subscriber returned.
C26_ErrorsRestartTheSubscriber ==
    /\ [](sup.pc = "exit" => sup.stop)
    /\ [][/\ (sup.pc = "returned" /\ sup.res = "Err" /\ ~sup.stop /\ sup'.pc # "returned") =>
                (sup'.pc = "delay" /\ sup'.backoff = sup.backoff + 1)
          /\ (sup.pc = "delay" /\ sup'.pc # "delay") =>
                (sup'.pc = "top" \/ (sup'.pc = "exit" /\ sup.stop))
          /\ (sup.pc = "top" /\ ~sup.stop /\ sup'.pc # "top") => sup'.pc = "connect"
          /\ (sup.pc = "connect" /\ ~sup.stop /\ sup'.pc # "connect") =>
                (sup'.pc = "subscriber" /\ sup'.run = sup.run + 1)
         ]_vars

\* The subscriber runs again, subscribed, after a run that failed.
C26_Witness ==
    /\ sup.pc = "loop"
    /\ sup.run = 2
    /\ sup.backoff = 1
    /\ ~sup.stop

\* C27: when subscriber returns success the supervisor resets the backoff and
\* takes no backoff delay: it goes to the head of its loop, or exits, which it
\* does only with stop requested; the backoff goes down at no other step, and
\* after an error it is kept or advanced by the delay taken.
C27_BackoffResetOnSuccessOnly ==
    [][/\ (sup.pc = "returned" /\ sup.res = "Ok" /\ sup'.pc # "returned") =>
            /\ sup'.backoff = 0
            /\ sup'.pc \in {"top", "exit"}
            /\ sup'.pc = "exit" => sup.stop
       /\ (sup.pc = "returned" /\ sup.res = "Err" /\ sup'.pc # "returned") =>
            sup'.backoff = IF sup'.pc = "delay" THEN sup.backoff + 1 ELSE sup.backoff
       /\ sup'.backoff < sup.backoff => (sup.pc = "returned" /\ sup.res = "Ok")
      ]_vars

\* The supervisor has ended with a new backoff after a second subscriber run:
\* the first run failed and advanced the backoff, the second returned success.
C27_Witness ==
    /\ sup.pc = "exit"
    /\ sup.run = 2
    /\ sup.res = "Ok"
    /\ sup.backoff = 0

\* C28: ensure_transition(from, to) returns Ok exactly when from = to or the
\* pair (from, to) is in the transition table; any other call returns
\* InvalidTransition with the from and to it was given.
C28_TransitionAllowedIffInTable ==
    sup.pc = "returned" =>
        /\ sup.res.ok <=> (sup.from = sup.to \/ <<sup.from, sup.to>> \in TransitionTable)
        /\ ~sup.res.ok =>
            sup.res = [ok |-> FALSE, err |-> "InvalidTransition",
                       from |-> sup.from, to |-> sup.to]

\* A call for a pair outside the table has returned: out of a final status.
C28_Witness ==
    /\ sup.pc = "returned"
    /\ sup.from = "Cancelled"
    /\ sup.to = "Fulfilled"
    /\ ~sup.res.ok

\* C29: in every store, a listing address is validated after
\* mark_listing_validated and a second call leaves the store as the first
\* left it; mark_event_seen returns true exactly when the order is in the
\* store and the id is not yet in its seen set, and with the order absent it
\* returns false and leaves the store as it was; is_event_seen is true exactly
\* for an order in the store and an id recorded or marked for it, and after a
\* mark_event_seen of an order in the store it is true for the marked id.
C29_StoreOperations ==
    /\ \A a \in {AddrS, AddrM} :
        LET s1 == mark_listing_validated(state, a) IN
        /\ is_listing_validated(s1, a)
        /\ mark_listing_validated(s1, a) = s1
        /\ \A b \in {AddrS, AddrM} \ {a} :
                is_listing_validated(s1, b) = is_listing_validated(state, b)
    /\ \A o \in TwoOrderIds : \A e \in EventIds :
        LET r == mark_event_seen(state, o, e) IN
        /\ r.ret <=> (order_exists(state, o) /\ e \notin state.orders[o].seen_event_ids)
        /\ ~order_exists(state, o) => (r.st = state /\ ~is_event_seen(r.st, o, e))
        /\ order_exists(state, o) => is_event_seen(r.st, o, e)
        /\ is_event_seen(state, o, e) <=> (order_exists(state, o) /\ <<o, e>> \in sup.marked)

\* An order holds an id recorded at its insert and a marked one, the last
\* mark_event_seen returned false, and the other order is absent.
C29_Witness ==
    /\ state.validated_listings = {AddrS}
    /\ \E o \in TwoOrderIds :
        /\ order_exists(state, o)
        /\ Cardinality(state.orders[o].seen_event_ids) >= 2
        /\ \E p \in TwoOrderIds : ~order_exists(state, p)
    /\ ~sup.ret

\* Whether a p tag of the event holds the daemon's key.
NamesTheDaemon(event) == tag_has_value(event.tags, "p", pubkey_to_string(Rhi))

\* C30: an event with the encrypted marker has its content decrypted only when
\* a p tag of it holds the daemon's key, and any other is dropped with
\* NotRecipient; an event that is dropped runs no handler, leaves the store as
\* it was and sends neither an envelope nor feedback; an event without the
\* marker is handled with its own tags.
C30_OthersDroppedAsNotRecipient ==
    /\ \A e \in EncryptedEvents :
        LET k == spawned_task(state, e, "none") IN
        /\ k.resolved.decrypted => NamesTheDaemon(e)
        /\ ~NamesTheDaemon(e) => (k.resolved.res = "NotRecipient" /\ ~k.handled)
        /\ ~k.handled => (k.r.st = state /\ k.r.out = None /\ k.pc = "idle")
    /\ \A e \in SupEvents :
        /\ nostr_tags_resolve(e, Rhi) = [res |-> "Ok", tags |-> e.tags, decrypted |-> FALSE]
        /\ \A f \in FetchFor(e) : spawned_task(state, e, f).r = handle_event(state, e, f)

\* What holds of C30 in every reachable state: the same with the error of an
\* event that names no key at all, MissingPTag, beside NotRecipient.
DroppedAsNotRecipientOrMissingPTag ==
    /\ \A e \in EncryptedEvents :
        LET k == spawned_task(state, e, "none") IN
        /\ k.resolved.decrypted => NamesTheDaemon(e)
        /\ ~NamesTheDaemon(e) =>
            /\ k.resolved.res \in {"NotRecipient", "MissingPTag"}
            /\ k.resolved.res = "MissingPTag" <=>
                    ~\E i \in 1..Len(e.tags) :
                        Len(e.tags[i]) >= 2 /\ e.tags[i][1] = "p" /\ IsPublicKey(e.tags[i][2])
            /\ ~k.handled
        /\ ~k.handled => (k.r.st = state /\ k.r.out = None /\ k.pc = "idle")
    /\ \A e \in SupEvents :
        /\ nostr_tags_resolve(e, Rhi) = [res |-> "Ok", tags |-> e.tags, decrypted |-> FALSE]
        /\ \A f \in FetchFor(e) : spawned_task(state, e, f).r = handle_event(state, e, f)

\* Listing addresses that do not parse, or parse with another kind.
BadAddresses == {AddrWrongKind, AddrTooBig, AddrShort}

\* C31: an event that names a listing address that does not parse, or parses
\* with a kind other than 30402, in its envelope and its a tag fails with
\* InvalidListingAddr, leaves the store as it was and sends nothing; and in
\* every reachable state every validated listing and every order's listing
\* address parses with kind 30402.
C31_BadAddressRejected ==
    /\ \A a \in state.validated_listings : IsListingAddress(a)
    /\ \A o \in DOMAIN state.orders : IsListingAddress(state.orders[o].listing_addr)
    /\ \A e \in Events : \A a \in BadAddresses : \A f \in FetchFor(e) :
        LET bad == [e EXCEPT !.content.listing_addr = a, !.tags[2] = <<"a", a>>]
            r == handle_event(state, bad, f)
        IN r.res = "InvalidListingAddr" /\ r.st = state /\ r.out = None

\* A listing is validated and holds an order, and an OrderRequest that names
\* an address of another kind is rejected.
C31_Witness ==
    /\ state.validated_listings # {}
    /\ state.orders # << >>
    /\ \E e \in OrderRequests(Events) :
        /\ e.content.listing_addr = AddrWrongKind
        /\ handle_event(state, e, "none").res = "InvalidListingAddr"

\* The events of a type about an order of the store that its handler takes
\* up to the transition check: an event id the order has not seen, a payload
\* that names no other order, the order's listing address, and as author the
\* order's seller or buyer as given.
Unseen(events, mt, party) ==
    {e \in OnStoredOrder(events) :
        /\ e.content.message_type = mt
        /\ e.content.payload.order_id \in {None, e.content.order_id}
        /\ e.content.listing_addr = state.orders[e.content.order_id[1]].listing_addr
        /\ ~is_event_seen(state, e.content.order_id[1], e.id)
        /\ pubkey_to_string(e.pubkey) =
                IF party = "seller" THEN state.orders[e.content.order_id[1]].seller_pubkey
                ELSE state.orders[e.content.order_id[1]].buyer_pubkey}

\* C32: an Answer of the order's seller with an unseen event id succeeds, sets
\* the status to Requested, records the id and is forwarded to the buyer when
\* the order is Requested, Questioned or Revised; in every other status it
\* fails with InvalidTransition and changes nothing.
C32_AnswerFromAnyOpenStatus ==
    \A e \in Unseen(LifeEvents, "Answer", "seller") :
        LET o == e.content.order_id[1]
            order == state.orders[o]
            r == handle_event(state, e, "none")
        IN IF order.status \in {"Requested", "Questioned", "Revised"}
           THEN /\ r.res = "Ok"
                /\ r.st = Commit(state, o, "Requested", e.id)
                /\ r.out # None
                /\ r.out[1].message_type = "Answer"
                /\ r.out[1].recipient = order.buyer_pubkey
           ELSE /\ order.status \in {"Accepted", "Declined", "Cancelled", "Fulfilled",
                                     "Completed"}
                /\ r.res = "InvalidTransition"
                /\ r.st = state
                /\ r.out = None

\* A Revised order, no question asked, that an Answer of the seller takes
\* back to Requested.
C32_Witness ==
    \E e \in Unseen(LifeEvents, "Answer", "seller") :
        /\ state.orders[e.content.order_id[1]].status = "Revised"
        /\ handle_event(state, e, "none").st.orders[e.content.order_id[1]].status = "Requested"

\* C33: a DiscountRequest of the order's buyer with an unseen event id
\* succeeds in every status: the status stays, the id is recorded and the
\* request is forwarded to the seller; with an id the order has seen it
\* returns Ok, changes nothing and forwards nothing; and no DiscountRequest,
\* whoever sends it, changes an order's status.
C33_DiscountRequestInEveryStatus ==
    /\ \A e \in Unseen(LifeEvents, "DiscountRequest", "buyer") :
        LET o == e.content.order_id[1]
            order == state.orders[o]
            r == handle_event(state, e, "none")
        IN /\ r.res = "Ok"
           /\ r.st = MarkSeen(state, o, e.id)
           /\ r.st.orders[o].status = order.status
           /\ r.out # None
           /\ r.out[1].message_type = "DiscountRequest"
           /\ r.out[1].recipient = order.seller_pubkey
    /\ \A e \in OnStoredOrder(LifeEvents) :
        e.content.message_type = "DiscountRequest" =>
            LET o == e.content.order_id[1]
                r == handle_event(state, e, "none")
            IN /\ r.st.orders[o].status = state.orders[o].status
               /\ (is_event_seen(state, o, e.id) /\ e.content.payload.order_id = Some(o)) =>
                    (r.res = "Ok" /\ r.st = state /\ r.out = None)

\* A Completed order, which an unseen DiscountRequest of its buyer still
\* reaches.
C33_Witness ==
    \E e \in Unseen(LifeEvents, "DiscountRequest", "buyer") :
        /\ state.orders[e.content.order_id[1]].status = "Completed"
        /\ handle_event(state, e, "none").out # None

\* Whether a stored event is the one a listing address names: its kind, its
\* author and its identifier are the address's.
NamedBy(ev, listing_addr) ==
    LET addr == TradeListingAddress_parse(listing_addr) IN
    /\ ev.kind = addr.kind
    /\ pubkey_to_string(ev.pubkey) = addr.seller_pubkey
    /\ <<ev.d>> = addr.listing_id

\* C34: a ListingValidateRequest with a pointer marks its listing address
\* validated for every fetched event the validator accepts, of whatever kind,
\* author and identifier; an OrderRequest of a buyer for that address, naming
\* the address's seller, is then accepted and its order stored.
C34_PointerNotComparedWithAddress ==
    \A e \in ValidateEvents({Buyer}, {AddrS, AddrM}) : \A ev \in StoredEvents :
        (e.content.payload.listing_event /\ ev.valid) =>
            LET a == e.content.listing_addr
                fetched == listing_event_outcome(e.content.payload, a,
                                                 [res |-> "Ok", event |-> ev])
                r == handle_event(state, e, fetched)
            IN /\ r.res = "Ok"
               /\ r.st.validated_listings = state.validated_listings \cup {a}
               /\ \A q \in OrderRequestEvents(ConcIds, {Buyer}, {a}, OrderIds, {Buyer},
                                              {Seller, Mallory}) :
                    (/\ ~order_exists(state, q.content.order_id[1])
                     /\ q.content.payload.seller_pubkey =
                            TradeListingAddress_parse(a).seller_pubkey) =>
                        LET r2 == handle_event(r.st, q, "none") IN
                        /\ r2.res = "Ok"
                        /\ order_exists(r2.st, q.content.order_id[1])
                        /\ r2.st.orders[q.content.order_id[1]].listing_addr = a

\* An order stands on one listing, and the other listing, not validated yet,
\* is about to be by a pointer to an event of another kind, author and
\* identifier.
C34_Witness ==
    /\ state.validated_listings = {AddrM}
    /\ state.orders # << >>
    /\ \E e \in ValidateEvents({Buyer}, {AddrS}) : \E ev \in StoredEvents :
        /\ e.content.payload.listing_event
        /\ ev.valid /\ ev.kind # ListingKind /\ ev.pubkey # Seller /\ ev.d # "x"
        /\ ~NamedBy(ev, AddrS)
        /\ AddrS \in handle_event(state, e,
                        listing_event_outcome(e.content.payload, AddrS,
                                              [res |-> "Ok", event |-> ev])).st.validated_listings

\* C37: without a pointer the event given to the validator is, among the
\* fetched events of the address's kind, one of greatest created_at, the
\* first of them in the order of the fetch; the listing is marked as the
\* validator finds that event; if no fetched event is of the kind, the answer
\* is ListingEventNotFound and nothing is marked.
C37_LatestOfKindIsValidated ==
    \A e \in ValidateEvents({Buyer}, {AddrS, AddrM}) : \A l \in FetchedLists :
        ~e.content.payload.listing_event =>
            LET a == e.content.listing_addr
                answer == [res |-> "Ok", events |-> l]
                of_kind == {i \in 1..Len(l) : l[i].kind = ListingKind}
                fetched == fetch_listing_by_addr(a, answer)
                r == handle_event(state, e,
                                  listing_event_outcome(e.content.payload, a, answer))
            IN /\ fetched.res = "Ok"
               /\ r.res = "Ok"
               /\ IF of_kind = {}
                  THEN /\ fetched.event = None
                       /\ r.out[1].payload.errors = {"ListingEventNotFound"}
                       /\ r.st = state
                  ELSE \E i \in of_kind :
                        /\ fetched.event = Some(l[i])
                        /\ \A j \in of_kind :
                            /\ l[j].created_at <= l[i].created_at
                            /\ l[j].created_at = l[i].created_at => i <= j
                        /\ IF l[i].valid
                           THEN /\ a \in r.st.validated_listings
                                /\ r.out[1].payload.errors = {}
                           ELSE /\ r.st = state
                                /\ r.out[1].payload.errors = {"InvalidListing"}

\* A listing is validated, and for the other one the fetch returns an older
\* event that the validator accepts after a newer one that it refuses, and
\* two events of one age of which the validator accepts the second only.
C37_Witness ==
    /\ state.validated_listings = {AddrM}
    /\ \E l \in FetchedLists :
        /\ Len(l) = 2
        /\ l[1].kind = ListingKind /\ l[2].kind = ListingKind
        /\ l[1].created_at > l[2].created_at
        /\ ~l[1].valid /\ l[2].valid
        /\ fetch_listing_by_addr(AddrS, [res |-> "Ok", events |-> l]).event = Some(l[1])
    /\ \E l \in FetchedLists :
        /\ Len(l) = 2
        /\ l[1].kind = ListingKind /\ l[2].kind = ListingKind
        /\ l[1].created_at = l[2].created_at
        /\ ~l[1].valid /\ l[2].valid
        /\ \E e \in ValidateEvents({Buyer}, {AddrS}) :
            /\ ~e.content.payload.listing_event
            /\ handle_event(state, e,
                   listing_event_outcome(e.content.payload, AddrS,
                                         [res |-> "Ok", events |-> l])).st = state

\* The payload names another order than the envelope, in a message whose
\* handler compares the two.
NamesAnotherOrder(e) ==
    /\ e.content.message_type \in {"OrderRequest", "OrderRevision", "DiscountRequest",
                                   "DiscountOffer", "Question", "Answer"}
    /\ e.content.payload.order_id \notin {None, e.content.order_id}

\* The decision in the payload is not the one the message type announces.
DecisionContradictsType(e) ==
    \/ e.content.message_type = "OrderRevisionAccept" /\ ~e.content.payload.accepted
    \/ e.content.message_type = "OrderRevisionDecline" /\ e.content.payload.accepted
    \/ e.content.message_type = "DiscountAccept" /\ e.content.payload.variant # "Accept"
    \/ e.content.message_type = "DiscountDecline" /\ e.content.payload.variant # "Decline"

\* Well-formed events about one order whose type and payload disagree.
Contradicting ==
    {e \in LifeEvents \cup MismatchedOrderRequests(LifeIds, OrderIds) :
        /\ e.content.payload.listing_addr \in {<< >>, e.content.listing_addr}
        /\ NamesAnotherOrder(e) \/ DecisionContradictsType(e)}

\* C35 as stated: every message whose type contradicts its payload is rejected
\* with InvalidOrder and changes nothing.
C35_ContradictionIsInvalidOrder ==
    \A e \in Contradicting :
        handle_event(state, e, "none") = Result(state, "InvalidOrder", None)

\* C35: a message whose payload names another order than the envelope is
\* rejected with InvalidOrder; a message whose decision contradicts its type is
\* rejected with InvalidOrder when the order is in the store, has not seen the
\* event id and has the author as its buyer, with MissingOrder when the order
\* is not in the store and with Unauthorized when the author is not the
\* order's buyer; in every case the store is unchanged and nothing is sent.
C35_ContradictionRejectedAtItsCheck ==
    \A e \in Contradicting :
        LET r == handle_event(state, e, "none")
            o == e.content.order_id[1]
        IN /\ r.st = state
           /\ r.out = None
           /\ NamesAnotherOrder(e) => r.res = "InvalidOrder"
           /\ (DecisionContradictsType(e) /\ ~is_event_seen(state, o, e.id)) =>
                r.res = IF ~order_exists(state, o) THEN "MissingOrder"
                        ELSE IF state.orders[o].buyer_pubkey # pubkey_to_string(e.pubkey)
                        THEN "Unauthorized"
                        ELSE "InvalidOrder"

\* The order is Revised and the buyer's OrderRevisionAccept with accepted =
\* false and DiscountAccept with a Decline payload, event ids unseen, are
\* rejected with InvalidOrder, as is the seller's DiscountOffer that names
\* another order.
C35_Witness ==
    /\ \E o \in DOMAIN state.orders : state.orders[o].status = "Revised"
    /\ \E e \in Contradicting :
        /\ e.content.message_type = "OrderRevisionAccept"
        /\ pubkey_to_string(e.pubkey) = state.orders[e.content.order_id[1]].buyer_pubkey
        /\ ~is_event_seen(state, e.content.order_id[1], e.id)
        /\ handle_event(state, e, "none").res = "InvalidOrder"
    /\ \E e \in Contradicting :
        /\ e.content.message_type = "DiscountAccept"
        /\ pubkey_to_string(e.pubkey) = state.orders[e.content.order_id[1]].buyer_pubkey
        /\ ~is_event_seen(state, e.content.order_id[1], e.id)
        /\ handle_event(state, e, "none").res = "InvalidOrder"
    /\ \E e \in Contradicting :
        /\ e.content.message_type = "DiscountOffer"
        /\ handle_event(state, e, "none").res = "InvalidOrder"

\* The status a message asks for.
TargetStatus(e) ==
    CASE e.content.message_type = "OrderResponse" ->
            IF e.content.payload.accepted THEN "Accepted" ELSE "Declined"
      [] e.content.message_type \in {"OrderRevision", "DiscountOffer"} -> "Revised"
      [] e.content.message_type \in {"OrderRevisionAccept", "DiscountAccept"} -> "Accepted"
      [] e.content.message_type = "OrderRevisionDecline" -> "Declined"
      [] e.content.message_type = "Question" -> "Questioned"
      [] e.content.message_type \in {"Answer", "DiscountDecline"} -> "Requested"
      [] e.content.message_type = "Cancel" -> "Cancelled"
      [] e.content.message_type = "FulfillmentUpdate" -> "Fulfilled"
      [] e.content.message_type = "Receipt" -> "Completed"
      [] OTHER -> "-"

\* Events about the stored order that ask for the status it has, from a party
\* the sender rule admits, with an unseen id and a payload that agrees with
\* the message type and the envelope.
AskingForCurrentStatus ==
    {e \in OnStoredOrder(LifeEvents) :
        /\ TargetStatus(e) = state.orders[e.content.order_id[1]].status
        /\ SenderRule(e.content.message_type, e.pubkey, state.orders[e.content.order_id[1]])
        /\ ~is_event_seen(state, e.content.order_id[1], e.id)
        /\ ~NamesAnotherOrder(e) /\ ~DecisionContradictsType(e)}

\* C36: a message that asks for the status the order already has passes the
\* transition check in every status, the terminal ones included: the handler
\* returns Ok, the status stays, the event id joins seen_event_ids and the
\* message is forwarded to its recipient.
C36_SameStatusPasses ==
    \A e \in AskingForCurrentStatus :
        LET o == e.content.order_id[1]
            r == handle_event(state, e, "none")
        IN /\ r.res = "Ok"
           /\ r.st.orders[o].status = state.orders[o].status
           /\ r.st.orders[o].seen_event_ids = state.orders[o].seen_event_ids \cup {e.id}
           /\ r.st = [state EXCEPT !.orders[o].seen_event_ids = @ \cup {e.id}]
           /\ r.out # None
           /\ r.out[1].message_type = e.content.message_type
           /\ r.out[1].order_id = e.content.order_id
           /\ RecipientRule(e, r)

\* The order is Cancelled and a Cancel with an unseen id is forwarded to the
\* other party.
C36_Witness ==
    /\ \E o \in DOMAIN state.orders : state.orders[o].status = "Cancelled"
    /\ \E e \in AskingForCurrentStatus :
        /\ e.content.message_type = "Cancel"
        /\ e.pubkey = Buyer
        /\ handle_event(state, e, "none").out[1].recipient = pubkey_to_string(Seller)

\* The order is Completed and a Receipt with an unseen id is forwarded to the
\* seller.
C36_WitnessCompleted ==
    /\ \E o \in DOMAIN state.orders : state.orders[o].status = "Completed"
    /\ \E e \in AskingForCurrentStatus :
        /\ e.content.message_type = "Receipt"
        /\ handle_event(state, e, "none").out[1].recipient = pubkey_to_string(Seller)

\* The tasks whose handler committed for an order and whose send_envelope then
\* failed.
SendFailedAfterCommit ==
    {t \in Tasks : held[t].res = "Nostr" /\ held[t].out # None
                   /\ held[t].out[1].order_id # None}

\* C38: after a failed send nothing is rolled back: the order is in the store
\* with the event id in seen_event_ids, and its status is the one the handler
\* committed or one a later message took it to; the handler's result is the
\* transport error; the task attempts one job feedback; send_envelope was
\* entered once for the event; and the same event delivered again returns Ok
\* with the store unchanged and no envelope.
C38_FailedSendKeepsCommit ==
    \A t \in SendFailedAfterCommit :
        LET e == held[t].event
            o == held[t].out[1].order_id[1]
            committed == handle_event(held[t].at, e, "none").st
        IN /\ tasks[t] \in {"feedback", "done"}
           /\ held[t].fb = IF tasks[t] = "done" THEN 1 ELSE 0
           /\ order_exists(state, o)
           /\ e.id \in state.orders[o].seen_event_ids
           /\ ensure_transition(committed.orders[o].status, state.orders[o].status)
           /\ state.orders[o].buyer_pubkey = committed.orders[o].buyer_pubkey
           /\ state.orders[o].seller_pubkey = committed.orders[o].seller_pubkey
           /\ sent[<<o, e.id>>] = 1
           /\ handle_event(state, e, "none") = Result(state, "Ok", None)

\* The send of an accepting OrderResponse has failed and the feedback was
\* attempted: the order is Accepted; and the send of an OrderRequest has
\* failed in another task.
C38_Witness ==
    /\ \E t \in SendFailedAfterCommit :
        /\ held[t].event.content.message_type = "OrderResponse"
        /\ held[t].event.content.payload.accepted
        /\ tasks[t] = "done"
        /\ state.orders[held[t].event.content.order_id[1]].status = "Accepted"
    /\ \E t \in SendFailedAfterCommit :
        held[t].event.content.message_type = "OrderRequest"

\* C39: the order's status is the last of the statuses written down; every
\* Completed among them has a Fulfilled before it and an Accepted before that,
\* every Fulfilled an Accepted before it; none is Draft or Validated;
\* Completed was committed by a Receipt of the order's buyer and Fulfilled by
\* a FulfillmentUpdate of its seller; and no other event makes a handler
\* change the order's status to one of these two.
C39_CompletedWasFulfilledWasAccepted ==
    LET p == sup.path IN
    /\ \A o \in OrderIds :
        IF order_exists(state, o)
        THEN /\ p # << >>
             /\ state.orders[o].status = p[Len(p)].status
             /\ state.orders[o].status \notin {"Draft", "Validated"}
        ELSE p = << >>
    /\ \A i \in 1..Len(p) :
        /\ p[i].status \notin {"Draft", "Validated"}
        /\ p[i].status = "Completed" =>
            /\ \E j \in 1..(i - 1) :
                /\ p[j].status = "Fulfilled"
                /\ \E k \in 1..(j - 1) : p[k].status = "Accepted"
            /\ p[i].by = "Receipt"
            /\ \A o \in DOMAIN state.orders : p[i].author = state.orders[o].buyer_pubkey
        /\ p[i].status = "Fulfilled" =>
            /\ \E k \in 1..(i - 1) : p[k].status = "Accepted"
            /\ p[i].by = "FulfillmentUpdate"
            /\ \A o \in DOMAIN state.orders : p[i].author = state.orders[o].seller_pubkey
    /\ \A e \in OnStoredOrder(LifeEvents) :
        LET o == e.content.order_id[1]
            r == handle_event(state, e, "none")
        IN r.st.orders[o].status # state.orders[o].status =>
            /\ r.st.orders[o].status = "Completed" =>
                /\ e.content.message_type = "Receipt"
                /\ pubkey_to_string(e.pubkey) = state.orders[o].buyer_pubkey
            /\ r.st.orders[o].status = "Fulfilled" =>
                /\ e.content.message_type = "FulfillmentUpdate"
                /\ pubkey_to_string(e.pubkey) = state.orders[o].seller_pubkey

\* The order is Completed after it was Requested, Revised, Accepted and
\* Fulfilled.
C39_Witness ==
    /\ Len(sup.path) = 5
    /\ sup.path[2].status = "Revised"
    /\ sup.path[5].status = "Completed"
    /\ \E o \in DOMAIN state.orders : state.orders[o].status = "Completed"

\* The event a request names as the previous stage's is on the relay, was
\* fetched and has the kind.
PreviousStageIs(request, net, kind) ==
    /\ request.prev \in 1..Len(sup.relay)
    /\ net.lost # request.prev
    /\ sup.relay[request.prev].kind = kind

\* The event an accept request names as the listing is on the relay, was
\* fetched and is signed by the daemon's key, and the order result has an
\* e_root tag that names it.
OwnEventIsRoot(request, net) ==
    /\ request.listing_event_id \in 1..Len(sup.relay)
    /\ net.lost # request.listing_event_id
    /\ sup.relay[request.listing_event_id].pubkey = Rhi
    /\ \E i \in 1..Len(sup.relay[request.prev].tags) :
            sup.relay[request.prev].tags[i] = <<TAG_E_ROOT, request.listing_event_id>>

\* A handler's answer r to a request whose reference is as expected or not: a
\* result is sent only if it is, and if it is not the handler returns an
\* error and sends nothing.
SendsOnlyIf(r, expected) ==
    /\ r.out # None => expected /\ r.res = "Ok"
    /\ ~expected => r.res # "Ok" /\ r.out = None

\* The kind of the event a result of one of the four handlers stands on; 0
\* for the kind of any other event.
StandsOn(kind) ==
    CASE kind = KIND_TRADE_LISTING_ACCEPT_RES -> KIND_TRADE_LISTING_ORDER_RES
      [] kind = KIND_TRADE_LISTING_ACCEPT_RES + 1 -> KIND_TRADE_LISTING_ACCEPT_RES
      [] kind = KIND_TRADE_LISTING_FULFILL_RES -> KIND_TRADE_LISTING_PAYMENT_RES
      [] kind = KIND_TRADE_LISTING_FULFILL_RES + 1 -> KIND_TRADE_LISTING_FULFILL_RES
      [] OTHER -> 0

\* Conveyance, fulfillment and receipt send a result only if the request
\* parses and the event it names was fetched and has the expected kind, and
\* return an error with nothing sent otherwise.
LaterStagesCheckTheKind ==
    \A net \in Transports :
        /\ \A q \in JobRequests("conveyance") :
            SendsOnlyIf(handle_job_request_trade_conveyance(sup.relay, Rhi, q, net),
                        q.parses /\ PreviousStageIs(q, net, KIND_TRADE_LISTING_ACCEPT_RES))
        /\ \A q \in JobRequests("fulfillment") :
            SendsOnlyIf(handle_job_request_trade_fulfillment(sup.relay, Rhi, q, net),
                        q.parses /\ PreviousStageIs(q, net, KIND_TRADE_LISTING_PAYMENT_RES))
        /\ \A q \in JobRequests("receipt") :
            SendsOnlyIf(handle_job_request_trade_receipt(sup.relay, Rhi, q, net),
                        q.parses /\ PreviousStageIs(q, net, KIND_TRADE_LISTING_FULFILL_RES))

\* Every result of the four handlers on the relay names an earlier event of
\* the kind its stage stands on.
ResultsStandOnPreviousStage ==
    \A i \in 1..Len(sup.relay) :
        (sup.relay[i].pubkey = Rhi /\ StandsOn(sup.relay[i].kind) # 0) =>
            LET prev == sup.relay[i].tags[2][2] IN
            /\ prev \in 1..(i - 1)
            /\ sup.relay[prev].kind = StandsOn(sup.relay[i].kind)

\* C40: a stage handler sends its result only if the request parses and the
\* event it names was fetched and has the expected kind: for accept an order
\* result with an e_root tag naming the listing, and a listing event signed by
\* the daemon's key; for conveyance an accept result; for fulfillment a
\* payment result; for receipt a fulfillment result. Otherwise it returns an
\* error and sends nothing.
C40_ResultOnlyAfterPreviousStage ==
    /\ LaterStagesCheckTheKind
    /\ ResultsStandOnPreviousStage
    /\ \A net \in Transports : \A q \in JobRequests("accept") :
        SendsOnlyIf(handle_job_request_trade_accept(sup.relay, Rhi, q, net),
                    /\ q.parses
                    /\ PreviousStageIs(q, net, KIND_TRADE_LISTING_ORDER_RES)
                    /\ OwnEventIsRoot(q, net)
                    /\ sup.relay[q.listing_event_id].kind = ListingKind)

\* What the handlers do: as C40, but accept takes for the listing any event
\* signed by the daemon's key, whatever its kind.
ResultOnlyAfterPreviousStageAndOwnEvent ==
    /\ LaterStagesCheckTheKind
    /\ ResultsStandOnPreviousStage
    /\ \A net \in Transports : \A q \in JobRequests("accept") :
        SendsOnlyIf(handle_job_request_trade_accept(sup.relay, Rhi, q, net),
                    /\ q.parses
                    /\ PreviousStageIs(q, net, KIND_TRADE_LISTING_ORDER_RES)
                    /\ OwnEventIsRoot(q, net))

\* The relay holds the daemon's listing, an order result for it, the accept
\* result the daemon sent for the two and the conveyance result it sent for
\* the accept result.
PipelineToConveyance ==
    /\ Len(sup.relay) = 4
    /\ sup.relay[1] = [kind |-> ListingKind, pubkey |-> Rhi, tags |-> << >>]
    /\ sup.relay[2].kind = KIND_TRADE_LISTING_ORDER_RES
    /\ sup.relay[3] = [kind |-> KIND_TRADE_LISTING_ACCEPT_RES, pubkey |-> Rhi,
                       tags |-> ChainTags(1, 2)]
    /\ sup.relay[4].pubkey = Rhi
    /\ sup.relay[4].tags = ChainTags(1, 3)

\* The relay holds a payment result, the fulfillment result the daemon sent
\* for it and the receipt result it sent for the fulfillment result.
PipelineToReceipt ==
    \E i \in 1..Len(sup.relay) :
        /\ sup.relay[i].pubkey = Rhi
        /\ sup.relay[i].kind = KIND_TRADE_LISTING_FULFILL_RES + 1
        /\ sup.relay[sup.relay[i].tags[2][2]].pubkey = Rhi
        /\ sup.relay[sup.relay[i].tags[2][2]].kind = KIND_TRADE_LISTING_FULFILL_RES

\* The daemon has sent an accept result for a request whose listing is an
\* order result of its own.
C40_Witness ==
    \E i \in 1..Len(sup.relay) : \E l \in 1..Len(sup.relay) :
        /\ sup.relay[i].pubkey = Rhi
        /\ sup.relay[i].kind = KIND_TRADE_LISTING_ACCEPT_RES
        /\ sup.relay[i].tags[1] = <<TAG_E_ROOT, l>>
        /\ sup.relay[l].pubkey = Rhi
        /\ sup.relay[l].kind = KIND_TRADE_LISTING_ORDER_RES

====
